---- MODULE Spec2Model ----
(***************************************************************************)
(* A model of the JSON/YAML editor of src/src/main.ts: the value model,    *)
(* the structural differ (compareJson, renderDiff), the path addressing    *)
(* of the tree view (createTreeNode), of the column view                   *)
(* (handleColumnItemClick, getValueAtPath) and of navigateToJsonPath.      *)
(*                                                                         *)
(* JavaScript strings are TLA+ strings; template literals are \o.          *)
(***************************************************************************)
EXTENDS Integers, Sequences, FiniteSets, TLC

(***************************************************************************)
(* Bounds of the model.                                                    *)
(***************************************************************************)
\* numbers of the generated documents are 0..MaxNum (and NaN)
MaxNum == 1
\* generated documents of the diff panes have at most MaxNodes nodes
MaxNodes == 3
\* at most MaxPending timers of a kind are pending at a time
MaxPending == 4
\* generated documents of the panes of SpecOrder have at most OrderMaxNodes nodes
OrderMaxNodes == 2
\* documents of the tree and column views have at most TreeMaxNodes nodes
TreeMaxNodes == 4
\* getValueAtPath is given at most MaxParts path parts
MaxParts == 2
\* at most MaxRequests invocations of an async handler are in flight at a time
MaxRequests == 2
\* a streamed response has at most MaxChunks chunks
MaxChunks == 2
\* token counts and the input quota of a session are at most MaxTokens
MaxTokens == 1

VARIABLES
  diffInputLeft,    \* parse result of the left diff pane's text
  diffInputRight,   \* parse result of the right diff pane's text
  diffShown,        \* what diffResult shows: "initial", "prompt", "identical", "entries"
  diffEntries,      \* the DiffResult[] rendered into diffResult
  diffStats,        \* diffStats.textContent
  jsonInput,        \* parse result of the main editor's text
  tree,             \* the .tree-line elements of jsonTree, in document order
  activeView,       \* 'tree' or 'column'
  columnSelectedPath,
  columns,          \* the columns of columnViewEl, each its items' paths
  currentPath,      \* the path showPath displays
  pathDisplayHidden,
  pathShownBy,      \* the handler that called showPath last: "", "tree", "column"
  resolveData,      \* getValueAtPath's arguments and what it returned
  resolveParts,
  resolveResult,
  mode,             \* 'editor' or 'diff': the view that is not hidden
  collapsed,        \* the parts of the tree nodes whose children are collapsed
  navTick,          \* flips at every call of navigateToJsonPath
  navPathStr,       \* the argument of the last call of navigateToJsonPath
  navTarget,        \* its targetLine: an index into tree, 0 for null
  highlightTimers,  \* the lines with a pending 100 ms timer of navigateToJsonPath
  highlighted,      \* the lines with the class path-highlight
  removeTimers,     \* the lines with a pending 2500 ms timer
  statsValue,       \* the argument of the last call of countStats
  stats,            \* the Stats it returned
  searchQuery,      \* searchInput.value, the query of the last call of performSearch
  searchMatches,    \* the matched .tree-line elements, as indexes into tree
  currentMatchIndex,\* the cursor, -1 when unset
  searchMatchClass, \* the lines with the class search-match
  searchCurrentClass,\* the lines with the class search-current
  searchResultsText,\* searchResults.textContent
  searchOp,         \* the search handler that ran last, "" for none
  editorText,       \* jsonInput.value, the text of the main editor
  currentFormat,    \* the format parseData detected last, in any pane
  formatBadge,      \* the format the badge of the main editor shows
  diffTextLeft,     \* diffInputLeft.value
  diffTextRight,    \* diffInputRight.value
  shareUrl,         \* the data and format of the last share URL, none before
  isOpen,           \* AIChatbox.isOpen
  panelClasses,     \* which of aicb-hidden and aicb-visible the panel has
  fabClasses,       \* which of aicb-hidden the floating button has
  closeTimers,      \* the pending 300 ms timers of close
  frameCallbacks,   \* the pending requestAnimationFrame callbacks of open
  aiSession,        \* the session of the language model, "null" before one is created, else the method it answers by
  sessionsCreated,  \* how many sessions languageModel.create has returned
  aiSendDisabled,   \* aiSend.disabled
  aiInputValue,     \* aiInput.value
  loadingMessages,  \* the number of .ai-message-loading elements in the chat
  aiRequests,       \* the invocations of sendAIMessage, each at the await it has reached
  modelCalls,       \* the prompts the session was called with, each with what checkPromptFits said of it
  storedText,       \* the item of localStorage under STORAGE_KEY, NoItem when there is none
  urlInputValue,    \* urlInput.value
  urlModalHidden,   \* whether urlModal has the class hidden
  urlErrorHidden,   \* whether urlError has the class hidden
  urlFetchBtnDisabled,\* urlFetchBtn.disabled
  urlFetches        \* the invocations of fetchFromUrl, each at the await it has reached, with the response it got

diffVars == <<diffInputLeft, diffInputRight, diffShown, diffEntries, diffStats>>
editorVars == <<jsonInput, tree, activeView, columnSelectedPath, columns>>
pathVars == <<currentPath, pathDisplayHidden, pathShownBy>>
resolveVars == <<resolveData, resolveParts, resolveResult>>
navVars == <<mode, collapsed, navTick, navPathStr, navTarget,
             highlightTimers, highlighted, removeTimers>>
statsVars == <<statsValue, stats>>
searchVars == <<searchQuery, searchMatches, currentMatchIndex, searchMatchClass, searchCurrentClass, searchResultsText, searchOp>>
textVars == <<editorText, currentFormat, formatBadge, diffTextLeft, diffTextRight, shareUrl>>
chatVars == <<isOpen, panelClasses, fabClasses, closeTimers, frameCallbacks>>
aiVars == <<aiSession, sessionsCreated, aiSendDisabled, aiInputValue, loadingMessages, aiRequests, modelCalls>>
storeVars == <<storedText>>
urlVars == <<urlInputValue, urlModalHidden, urlErrorHidden, urlFetchBtnDisabled, urlFetches>>
vars == <<diffVars, editorVars, pathVars, resolveVars, navVars, statsVars, searchVars, textVars, chatVars, aiVars, storeVars, urlVars>>

(***************************************************************************)
(* JsonValue (main.ts 11-13).  Each kind has its own payload field.        *)
(* A number is a float64: yaml.load (parseData, main.ts 176) produces NaN  *)
(* from the YAML scalar .nan, and NaN is the one number that `!==` itself. *)
(* FunctionValue is what `o[key]` returns for a key inherited from         *)
(* Object.prototype; no parse produces it.                                 *)
(***************************************************************************)
Null == [k |-> "null"]
Bool(b) == [k |-> "boolean", b |-> b]
Num(n) == [k |-> "number", nan |-> FALSE, n |-> n]
NaN == [k |-> "number", nan |-> TRUE, n |-> 0]
Str(s) == [k |-> "string", s |-> s]
Arr(items) == [k |-> "array", items |-> items]
\* fields: the own properties as <<key, value>> pairs, in Object.keys order
Obj(fields) == [k |-> "object", fields |-> fields]
FunctionValue(name) == [k |-> "function", name |-> name]
\* what a missing property reads as
Undefined == [k |-> "undefined"]

\* getType without its Array.isArray test: typeof [] is 'object'
getTypeTypeofOnly(value) ==
  IF value.k = "null" THEN "null"
  ELSE IF value.k = "array" THEN "object"
  ELSE value.k

\* getType (main.ts 191-195): null, then Array.isArray, then typeof
getType(value) ==
  IF value.k = "null" THEN "null"
  ELSE IF value.k = "array" THEN "array"
  ELSE value.k

(***************************************************************************)
(* Strings.                                                                *)
(***************************************************************************)
Digits == {"0", "1", "2", "3", "4", "5", "6", "7", "8", "9"}
CharAt(s, i) == SubSeq(s, i, i)
startsWith(s, prefix) ==
  Len(prefix) <= Len(s) /\ SubSeq(s, 1, Len(prefix)) = prefix
endsWith(s, suffix) ==
  Len(suffix) <= Len(s) /\ SubSeq(s, Len(s) - Len(suffix) + 1, Len(s)) = suffix
\* /^\d+$/.test(p)
AllDigits(p) == Len(p) > 0 /\ \A i \in 1..Len(p) : CharAt(p, i) \in Digits

(***************************************************************************)
(* Objects: own keys, the `in` operator, property read.                    *)
(***************************************************************************)
\* the enumerable own properties: of an array, its indices
OwnFields(o) ==
  IF o.k = "array" THEN [i \in 1..Len(o.items) |-> <<ToString(i - 1), o.items[i]>>]
  ELSE o.fields
\* Object.keys(o)
ObjectKeys(o) == [i \in 1..Len(OwnFields(o)) |-> OwnFields(o)[i][1]]
HasOwn(o, key) == \E i \in 1..Len(OwnFields(o)) : OwnFields(o)[i][1] = key
\* the function-valued properties every object inherits from Object.prototype
ProtoKeys == {"constructor", "hasOwnProperty", "isPrototypeOf",
              "propertyIsEnumerable", "toLocaleString", "toString", "valueOf"}
\* `key in o` (main.ts 1396, 1398, 650): own or inherited
In(key, o) == HasOwn(o, key) \/ key \in ProtoKeys
\* o[key], for a key that is `in` o
Get(o, key) ==
  IF HasOwn(o, key)
  THEN (OwnFields(o)[CHOOSE i \in 1..Len(OwnFields(o)) : OwnFields(o)[i][1] = key])[2]
  ELSE FunctionValue(key)

IsScalar(v) == v.k \notin {"object", "array"}
IsEmptyContainer(v) == ~IsScalar(v) /\ Len(OwnFields(v)) = 0
\* a NaN is the value or within it
RECURSIVE HasNaNInside(_)
HasNaNInside(v) ==
  IF v.k = "number" THEN v.nan
  ELSE IF IsScalar(v) THEN FALSE
  ELSE \E i \in 1..Len(OwnFields(v)) : HasNaNInside(OwnFields(v)[i][2])

\* obj1 !== obj2 on two values of the same non-container type (main.ts 1419)
StrictNotEqual(obj1, obj2) ==
  IF obj1.k = "number" THEN obj1.nan \/ obj2.nan \/ obj1.n # obj2.n
  ELSE obj1 # obj2

(***************************************************************************)
(* compareJson (main.ts 1378-1424).                                        *)
(***************************************************************************)
RECURSIVE Flatten(_)
Flatten(seqs) ==
  IF Len(seqs) = 0 THEN <<>> ELSE Head(seqs) \o Flatten(Tail(seqs))

\* new Set([...Object.keys(o1), ...Object.keys(o2)]) in insertion order
RECURSIVE Dedup(_)
Dedup(keys) ==
  IF Len(keys) = 0 THEN <<>>
  ELSE LET front == Dedup(SubSeq(keys, 1, Len(keys) - 1))
           last == keys[Len(keys)]
       IN IF \E i \in 1..Len(front) : front[i] = last
          THEN front ELSE Append(front, last)
\* the union that starts with the keys of the new object
AllKeysNewFirst(o1, o2) == Dedup(ObjectKeys(o2) \o ObjectKeys(o1))
AllKeys(o1, o2) == Dedup(ObjectKeys(o1) \o ObjectKeys(o2))

Max(a, b) == IF a >= b THEN a ELSE b

\* `${path}.${key}`
FieldPath(path, key) == path \o "." \o key
\* the index path with a one-based index
IndexPathOneBased(path, i) == path \o "[" \o ToString(i + 1) \o "]"

\* `${path}[${i}]`, i zero-based
IndexPath(path, i) == path \o "[" \o ToString(i) \o "]"

\* the array loop bounded by the old array's length alone
ArrayLoopLenOld(a1, a2) == Len(a1.items)

\* the bound of the array loop: Math.max(a1.length, a2.length)
ArrayLoopLen(a1, a2) == Max(Len(a1.items), Len(a2.items))

Added(path, newValue) == [type |-> "added", path |-> path, newValue |-> newValue]
Removed(path, oldValue) == [type |-> "removed", path |-> path, oldValue |-> oldValue]
Changed(path, oldValue, newValue) ==
  [type |-> "changed", path |-> path, oldValue |-> oldValue, newValue |-> newValue]

RECURSIVE compareJson(_, _, _)
compareJson(obj1, obj2, path) ==
  LET type1 == getType(obj1)
      type2 == getType(obj2)
  IN
  IF type1 # type2 THEN << Changed(path, obj1, obj2) >>
  ELSE IF type1 = "object" THEN
    LET allKeys == AllKeys(obj1, obj2)
        forKey(key) ==
          LET childPath == FieldPath(path, key) IN
          IF ~In(key, obj1) THEN << Added(childPath, Get(obj2, key)) >>
          ELSE IF ~In(key, obj2) THEN << Removed(childPath, Get(obj1, key)) >>
          ELSE compareJson(Get(obj1, key), Get(obj2, key), childPath)
    IN Flatten([j \in 1..Len(allKeys) |-> forKey(allKeys[j])])
  ELSE IF type1 = "array" THEN
    LET maxLen == ArrayLoopLen(obj1, obj2)
        \* i is the zero-based index of the loop
        forIndex(i) ==
          LET childPath == IndexPath(path, i) IN
          IF i >= Len(obj1.items) THEN << Added(childPath, obj2.items[i + 1]) >>
          ELSE IF i >= Len(obj2.items) THEN << Removed(childPath, obj1.items[i + 1]) >>
          ELSE compareJson(obj1.items[i + 1], obj2.items[i + 1], childPath)
    IN Flatten([j \in 1..maxLen |-> forIndex(j - 1)])
  ELSE IF StrictNotEqual(obj1, obj2) THEN << Changed(path, obj1, obj2) >>
  ELSE <<>>

Count(entries, type) ==
  Cardinality({j \in 1..Len(entries) : entries[j].type = type})

(***************************************************************************)
(* Generated documents: every value of at most a given number of nodes     *)
(* over a set of scalars and a set of object keys.                         *)
(***************************************************************************)
\* a canonical array index: Object.keys lists such keys first, ascending
IsIndexKey(key) == AllDigits(key) /\ (Len(key) = 1 \/ CharAt(key, 1) # "0")
RECURSIVE StrToNat(_)
StrToNat(s) ==
  IF Len(s) = 0 THEN 0
  ELSE 10 * StrToNat(SubSeq(s, 1, Len(s) - 1))
       + (CHOOSE d \in 0..9 : ToString(d) = CharAt(s, Len(s)))
\* the orders Object.keys can give for distinct own keys
KeysInObjectKeysOrder(ks) ==
  \A i, j \in 1..Len(ks) :
    i < j => /\ ks[i] # ks[j]
             /\ IsIndexKey(ks[j]) =>
                  (IsIndexKey(ks[i]) /\ StrToNat(ks[i]) < StrToNat(ks[j]))
KeySeqs(len, keys) ==
  {ks \in [1..len -> keys] : KeysInObjectKeysOrder(ks)}
Zip(ks, items) == [i \in 1..Len(ks) |-> <<ks[i], items[i]>>]

RECURSIVE ValuesOfSize(_, _, _), ItemSeqs(_, _, _)
\* the sequences of values whose node counts sum to m
ItemSeqs(m, scalars, keys) ==
  IF m = 0 THEN {<<>>}
  ELSE UNION { { <<x>> \o rest : x \in ValuesOfSize(s, scalars, keys),
                                 rest \in ItemSeqs(m - s, scalars, keys) }
               : s \in 1..m }
ValuesOfSize(n, scalars, keys) ==
  (IF n = 1 THEN scalars ELSE {})
  \cup { Arr(items) : items \in ItemSeqs(n - 1, scalars, keys) }
  \cup UNION { { Obj(Zip(ks, items)) : ks \in KeySeqs(Len(items), keys) }
               : items \in ItemSeqs(n - 1, scalars, keys) }
ValuesUpTo(n, scalars, keys) ==
  UNION { ValuesOfSize(s, scalars, keys) : s \in 1..n }

Numbers == { Num(n) : n \in 0..MaxNum } \cup {NaN}
DiffScalars == {Null, Bool(TRUE), Str("a")} \cup Numbers
DiffKeys == {"a", "b", "constructor"}
\* the two arrays of the positional example, [1,2,3] and [0,1,2,3]
ScenarioValues ==
  { Arr(<<Num(1), Num(2), Num(3)>>), Arr(<<Num(0), Num(1), Num(2), Num(3)>>) }
DiffValues == ValuesUpTo(MaxNodes, DiffScalars, DiffKeys) \cup ScenarioValues

(***************************************************************************)
(* ParseResult (main.ts 15-20) of a pane's text, as parseData returns it   *)
(* (main.ts 150-184): blank text and a syntax error are both not valid.    *)
(***************************************************************************)
Parsed(data) == [valid |-> TRUE, data |-> data]
BlankText == [valid |-> FALSE, error |-> "", data |-> Undefined]
SyntaxError == [valid |-> FALSE, error |-> "SyntaxError", data |-> Undefined]
YAMLException == [valid |-> FALSE, error |-> "YAMLException", data |-> Undefined]
DiffTexts == {BlankText, SyntaxError} \cup { Parsed(v) : v \in DiffValues }

(***************************************************************************)
(* renderDiff (main.ts 1433-1479), run by the input listeners of the two   *)
(* diff panes (main.ts 2642-2653).                                         *)
(***************************************************************************)
DiffStatsText(diffs) ==
  "+" \o ToString(Count(diffs, "added")) \o " -" \o ToString(Count(diffs, "removed"))
      \o " ~" \o ToString(Count(diffs, "changed"))

\* the test that looks at the left pane alone
EitherInvalidLeftOnly(leftResult, rightResult) == ~leftResult.valid
\* !leftResult.valid || !rightResult.valid (main.ts 1439)
EitherInvalid(leftResult, rightResult) == ~leftResult.valid \/ ~rightResult.valid

\* the rest of renderDiff once both panes are parsed (main.ts 1436-1478)
renderDiffOf(leftResult, rightResult) ==
  IF EitherInvalid(leftResult, rightResult)
  THEN /\ diffShown' = "prompt"
       /\ diffEntries' = <<>>
       /\ diffStats' = ""
  ELSE \E diffs \in {compareJson(leftResult.data, rightResult.data, "$")} :
         IF Len(diffs) = 0
         THEN /\ diffShown' = "identical"
              /\ diffEntries' = <<>>
              /\ diffStats' = "Identical"
         ELSE /\ diffShown' = "entries"
              /\ diffEntries' = diffs
              /\ diffStats' = DiffStatsText(diffs)

\* the format parseData detects for the text a parse result stands for: the
\* text is what JSON.stringify writes when that starts with { or [ and
\* parses back to the document, and a YAML text otherwise; "" for a blank
PaneFormat(result) ==
  IF result = BlankText THEN ""
  ELSE IF result = SyntaxError THEN "json"
  ELSE IF result = YAMLException THEN "yaml"
  ELSE IF ~IsScalar(result.data) /\ ~HasNaNInside(result.data) THEN "json"
  ELSE "yaml"
\* currentFormat after parseData of a pane (main.ts 151-156): a blank text
\* returns before the assignment
FormatWritten(format, paneFormat) == IF paneFormat = "" THEN format ELSE paneFormat

\* renderDiff parses the left pane, then the right pane
renderDiff ==
  /\ diffShown = "initial"
  /\ renderDiffOf(diffInputLeft, diffInputRight)
  /\ currentFormat' = FormatWritten(FormatWritten(currentFormat, PaneFormat(diffInputLeft)),
                                    PaneFormat(diffInputRight))
  /\ UNCHANGED <<diffInputLeft, diffInputRight>>
  /\ UNCHANGED <<editorText, formatBadge, diffTextLeft, diffTextRight, shareUrl>>
  /\ UNCHANGED <<editorVars, pathVars, resolveVars, navVars, statsVars, searchVars, chatVars, aiVars, storeVars, urlVars>>

\* the parts of the state a specification leaves alone
IdleDiff ==
  /\ diffInputLeft = BlankText
  /\ diffInputRight = BlankText
  /\ diffShown = "initial"
  /\ diffEntries = <<>>
  /\ diffStats = ""
IdleEditor ==
  /\ jsonInput = BlankText
  /\ tree = <<>>
  /\ activeView = "tree"
  /\ columnSelectedPath = <<>>
  /\ columns = <<>>
IdlePath ==
  /\ currentPath = ""
  /\ pathDisplayHidden = TRUE
  /\ pathShownBy = ""
IdleResolve ==
  /\ resolveData = Null
  /\ resolveParts = <<>>
  /\ resolveResult = [k |-> "not called"]
IdleNav ==
  /\ mode = "editor"
  /\ collapsed = {}
  /\ navTick = FALSE
  /\ navPathStr = ""
  /\ navTarget = 0
  /\ highlightTimers = {}
  /\ highlighted = {}
  /\ removeTimers = {}
\* an invocation of fetchFromUrl that has not started
NoResponse == [k |-> "none"]
NoFetch == [pc |-> "idle", response |-> NoResponse]
IdleUrl ==
  /\ urlInputValue = ""
  /\ urlModalHidden = TRUE
  /\ urlErrorHidden = TRUE
  /\ urlFetchBtnDisabled = FALSE
  /\ urlFetches = [r \in 1..MaxRequests |-> NoFetch]
\* localStorage.getItem(STORAGE_KEY) when no item is stored, and the item
\* that setItem(STORAGE_KEY, text) stores
NoItem == [k |-> "null"]
Item(text) == [k |-> "item", value |-> text]
IdleStore ==
  /\ storedText = NoItem
\* an invocation of sendAIMessage that has not started
NoRequest == [pc |-> "idle", prompt |-> "full", chunks |-> 0]
IdleAi ==
  /\ aiSession = "null"
  /\ sessionsCreated = 0
  /\ aiSendDisabled = FALSE
  /\ aiInputValue = ""
  /\ loadingMessages = 0
  /\ aiRequests = [r \in 1..MaxRequests |-> NoRequest]
  /\ modelCalls = {}
IdleChat ==
  /\ isOpen = FALSE
  /\ panelClasses = {"aicb-hidden"}
  /\ fabClasses = {}
  /\ closeTimers = 0
  /\ frameCallbacks = 0
IdleText ==
  /\ editorText = ""
  /\ currentFormat = "json"
  /\ formatBadge = "json"
  /\ diffTextLeft = ""
  /\ diffTextRight = ""
  /\ shareUrl = [k |-> "none"]
IdleSearch ==
  /\ searchQuery = ""
  /\ searchMatches = <<>>
  /\ currentMatchIndex = -1
  /\ searchMatchClass = {}
  /\ searchCurrentClass = {}
  /\ searchResultsText = ""
  /\ searchOp = ""
IdleStats ==
  /\ statsValue = Null
  /\ stats = [k |-> "not called"]

\* the two panes hold any texts; the listener is about to render
InitDiff ==
  /\ diffInputLeft \in DiffTexts
  /\ diffInputRight \in DiffTexts
  /\ diffShown = "initial"
  /\ diffEntries = <<>>
  /\ diffStats = ""
  /\ IdleEditor /\ IdlePath /\ IdleResolve /\ IdleNav /\ IdleStats /\ IdleSearch /\ IdleText /\ IdleChat /\ IdleAi /\ IdleStore /\ IdleUrl

NextDiff == renderDiff
SpecDiff == InitDiff /\ [][NextDiff]_vars
(***************************************************************************)
(* getValueAtPath (main.ts 641-655).                                       *)
(***************************************************************************)
\* the white space parseInt skips and trim removes
Whitespace == {" ", "\n", "\t"}
RECURSIVE TrimStart(_)
TrimStart(s) ==
  IF Len(s) > 0 /\ CharAt(s, 1) \in Whitespace
  THEN TrimStart(SubSeq(s, 2, Len(s))) ELSE s
RECURSIVE TrimEnd(_)
TrimEnd(s) ==
  IF Len(s) > 0 /\ CharAt(s, Len(s)) \in Whitespace
  THEN TrimEnd(SubSeq(s, 1, Len(s) - 1)) ELSE s
\* s.trim()
Trim(s) == TrimEnd(TrimStart(s))

\* detectFormat (main.ts 140-148)
\* detectFormat that knows of objects alone
detectFormatBraceOnly(text) ==
  IF startsWith(Trim(text), "{") THEN "json" ELSE "yaml"

detectFormat(text) ==
  LET trimmed == Trim(text) IN
  IF startsWith(trimmed, "{") \/ startsWith(trimmed, "[") THEN "json" ELSE "yaml"

\* currentFormat after parseData(text)
FormatAfter(format, text) == IF Trim(text) = "" THEN format ELSE detectFormat(text)

\* the length of the longest prefix of s made of digits
RECURSIVE DigitPrefixLen(_)
DigitPrefixLen(s) ==
  IF Len(s) > 0 /\ CharAt(s, 1) \in Digits
  THEN 1 + DigitPrefixLen(SubSeq(s, 2, Len(s))) ELSE 0
\* parseInt(part, 10): leading whitespace, a sign, then the digits up to
\* the first character that is none; NaN when there is no digit
parseInt(part) ==
  LET t == TrimStart(part)
      signed == Len(t) > 0 /\ CharAt(t, 1) \in {"-", "+"}
      body == IF signed THEN SubSeq(t, 2, Len(t)) ELSE t
      d == DigitPrefixLen(body)
      n == StrToNat(SubSeq(body, 1, d))
  IN IF d = 0 THEN [nan |-> TRUE, n |-> 0]
     ELSE [nan |-> FALSE, n |-> IF signed /\ CharAt(t, 1) = "-" THEN 0 - n ELSE n]

\* `current === null || typeof current !== 'object'` is the test of the
\* kinds other than object and array
RECURSIVE getValueAtPath(_, _)
getValueAtPath(data, pathParts) ==
  IF Len(pathParts) = 0 THEN data
  ELSE LET part == Head(pathParts) IN
       IF data.k \notin {"object", "array"} THEN Undefined
       ELSE IF data.k = "array"
       THEN LET index == parseInt(part) IN
            IF index.nan \/ index.n < 0 \/ index.n >= Len(data.items) THEN Undefined
            ELSE getValueAtPath(data.items[index.n + 1], Tail(pathParts))
       ELSE IF ~In(part, data) THEN Undefined
       ELSE getValueAtPath(Get(data, part), Tail(pathParts))

(***************************************************************************)
(* The tree view: createTreeNode (main.ts 450-632), renderTree (634-638).  *)
(* A .tree-line element is a record: its data-path, the data-searchable    *)
(* of its key and value spans, and parts, its place in the nesting of the  *)
(* DOM (the keys and indices of the nodes it is nested in).  isLast only   *)
(* decides the commas of the text and is left out.                         *)
(***************************************************************************)
NoText == [has |-> FALSE, text |-> ""]
Text(t) == [has |-> TRUE, text |-> t]
\* String(value) of a number or a boolean
String(value) ==
  IF value.k = "number" THEN (IF value.nan THEN "NaN" ELSE ToString(value.n))
  ELSE IF value.b THEN "true" ELSE "false"
\* valueSpan.dataset.searchable (main.ts 600-612)
ValueSearchable(value) ==
  IF value.k = "string" THEN Text(value.s)
  ELSE IF value.k = "null" THEN NoText
  ELSE Text(String(value))
\* the closing bracket's line: a .tree-line with no data-path
ClosingLine(parts) ==
  [closing |-> TRUE, path |-> "", parts |-> parts, type |-> "",
   keySearchable |-> NoText, valueSearchable |-> NoText]
\* the child paths of the tree: path ? `${path}.${k}` : `$.${k}`
TreeFieldPath(path, key) ==
  IF path # "" THEN path \o "." \o key ELSE "$." \o key
TreeIndexPath(path, i) ==
  IF path # "" THEN path \o "[" \o ToString(i) \o "]" ELSE "$[" \o ToString(i) \o "]"

\* key: NoText for the root, else the key or String(index)
RECURSIVE createTreeNode(_, _, _, _)
createTreeNode(key, value, path, parts) ==
  LET type == getType(value)
      line == [closing |-> FALSE, path |-> path, parts |-> parts, type |-> type,
               keySearchable |-> key,
               valueSearchable |-> IF type \in {"object", "array"} THEN NoText
                                   ELSE ValueSearchable(value)]
  IN
  IF type = "object" THEN
    LET keys == ObjectKeys(value) IN
    <<line>>
    \o Flatten([j \in 1..Len(keys) |->
         createTreeNode(Text(keys[j]), Get(value, keys[j]),
                        TreeFieldPath(path, keys[j]), Append(parts, keys[j]))])
    \o <<ClosingLine(parts)>>
  ELSE IF type = "array" THEN
    <<line>>
    \o Flatten([j \in 1..Len(value.items) |->
         createTreeNode(Text(ToString(j - 1)), value.items[j],
                        TreeIndexPath(path, j - 1), Append(parts, ToString(j - 1)))])
    \o <<ClosingLine(parts)>>
  ELSE <<line>>

renderTree(data) == createTreeNode(NoText, data, "$", <<>>)

(***************************************************************************)
(* The column view: createColumn (main.ts 724-778), renderColumnView       *)
(* (797-834).  A column is its pathParts and its items; an item is the     *)
(* path its click handler passes on and whether it is drawn selected.      *)
(***************************************************************************)
createColumn(data, pathParts, selectedPath) ==
  LET keys == IF getType(data) \in {"object", "array"} THEN ObjectKeys(data) ELSE <<>>
  IN [pathParts |-> pathParts,
      items |-> [j \in 1..Len(keys) |->
                   [path |-> Append(pathParts, keys[j]),
                    selected |-> /\ Len(selectedPath) > Len(pathParts)
                                 /\ selectedPath[Len(pathParts) + 1] = keys[j]]]]

\* the columns of the selected path, from its prefix of length i on
RECURSIVE SelectedColumns(_, _, _)
SelectedColumns(data, selectedPath, i) ==
  IF i > Len(selectedPath) THEN <<>>
  ELSE LET pathSoFar == SubSeq(selectedPath, 1, i)
           currentData == getValueAtPath(data, pathSoFar)
       IN IF currentData = Undefined THEN <<>>
          ELSE IF getType(currentData) \notin {"object", "array"} THEN <<>>
          ELSE <<createColumn(currentData, pathSoFar, selectedPath)>>
               \o SelectedColumns(data, selectedPath, i + 1)

renderColumnView(data, selectedPath) ==
  IF getType(data) \notin {"object", "array"} THEN <<>>
  ELSE <<createColumn(data, <<>>, selectedPath)>>
       \o SelectedColumns(data, selectedPath, 1)

\* the path string of handleColumnItemClick (main.ts 784-787)
RECURSIVE ColumnPathStr(_)
ColumnPathStr(path) ==
  IF Len(path) = 0 THEN ""
  ELSE (IF AllDigits(Head(path)) THEN "[" \o Head(path) \o "]" ELSE "." \o Head(path))
       \o ColumnPathStr(Tail(path))

(***************************************************************************)
(* The handlers of the tree and column views.                              *)
(***************************************************************************)
\* showPath (main.ts 1275-1284): the display is shown and its 5 s timer set
showPath(path, by) ==
  /\ currentPath' = path
  /\ pathDisplayHidden' = FALSE
  /\ pathShownBy' = by

\* the timer of showPath fires
pathTimeoutFires ==
  /\ ~pathDisplayHidden
  /\ pathDisplayHidden' = TRUE
  /\ UNCHANGED <<currentPath, pathShownBy>>
  /\ UNCHANGED <<diffVars, editorVars, resolveVars, navVars, statsVars, searchVars, textVars, chatVars, aiVars, storeVars, urlVars>>

\* the click listener of a tree line (main.ts 463-468); the tree is hidden
\* in column mode
treeLineClick ==
  /\ activeView = "tree"
  /\ \E j \in 1..Len(tree) :
       /\ ~tree[j].closing
       /\ showPath(tree[j].path, "tree")
  /\ UNCHANGED <<diffVars, editorVars, resolveVars, navVars, statsVars, searchVars, textVars, chatVars, aiVars, storeVars, urlVars>>

\* handleColumnItemClick (main.ts 780-795), on an item of a shown column
handleColumnItemClick ==
  /\ activeView = "column"
  /\ \E c \in 1..Len(columns) : \E j \in 1..Len(columns[c].items) :
       LET path == columns[c].items[j].path IN
       /\ columnSelectedPath' = path
       /\ showPath("$" \o ColumnPathStr(path), "column")
       /\ columns' = IF jsonInput.valid
                     THEN renderColumnView(jsonInput.data, path) ELSE columns
  /\ currentFormat' = FormatAfter(currentFormat, editorText)
  /\ UNCHANGED <<jsonInput, tree, activeView>>
  /\ UNCHANGED <<editorText, formatBadge, diffTextLeft, diffTextRight, shareUrl>>
  /\ UNCHANGED <<diffVars, resolveVars, navVars, statsVars, searchVars, chatVars, aiVars, storeVars, urlVars>>

\* setTreeViewMode (main.ts 838-844)
setTreeViewMode ==
  /\ activeView' = "tree"
  /\ UNCHANGED <<jsonInput, tree, columnSelectedPath, columns>>
  /\ UNCHANGED <<diffVars, pathVars, resolveVars, navVars, statsVars, searchVars, textVars, chatVars, aiVars, storeVars, urlVars>>

\* setColumnViewMode (main.ts 846-858)
setColumnViewMode ==
  /\ activeView' = "column"
  /\ columns' = IF jsonInput.valid
                THEN renderColumnView(jsonInput.data, columnSelectedPath) ELSE columns
  /\ currentFormat' = FormatAfter(currentFormat, editorText)
  /\ UNCHANGED <<jsonInput, tree, columnSelectedPath>>
  /\ UNCHANGED <<editorText, formatBadge, diffTextLeft, diffTextRight, shareUrl>>
  /\ UNCHANGED <<diffVars, pathVars, resolveVars, navVars, statsVars, searchVars, chatVars, aiVars, storeVars, urlVars>>

TreeScalars == {Null, Num(0), Str("a")}
TreeKeys == {"a", "b", "a.b", "0"}
TreeValues == ValuesUpTo(TreeMaxNodes, TreeScalars, TreeKeys)

\* the editor holds a document that startup's handleInput has rendered
\* (main.ts 2731-2750) in the tree view
InitTree ==
  /\ \E v \in TreeValues :
       /\ jsonInput = Parsed(v)
       /\ tree = renderTree(v)
  /\ activeView = "tree"
  /\ columnSelectedPath = <<>>
  /\ columns = <<>>
  /\ IdlePath /\ IdleDiff /\ IdleResolve /\ IdleNav /\ IdleStats /\ IdleSearch /\ IdleText /\ IdleChat /\ IdleAi /\ IdleStore /\ IdleUrl

NextTree ==
  \/ treeLineClick
  \/ handleColumnItemClick
  \/ setTreeViewMode
  \/ setColumnViewMode
  \/ pathTimeoutFires
SpecTree == InitTree /\ [][NextTree]_vars

(***************************************************************************)
(* getValueAtPath applied to any document and any parts.                   *)
(***************************************************************************)
ResolveParts == {"a", "b", "0", "1", "1.5", "constructor"}
ResolveScalars == {Null, Num(5), Str("a")}
ResolveKeys == {"a", "b"}
ResolveValues ==
  ValuesUpTo(MaxNodes, ResolveScalars, ResolveKeys)
  \cup { Obj(<< <<"a", Obj(<< <<"b", Num(1)>> >>)>> >>) }
PartSeqs == UNION { [1..n -> ResolveParts] : n \in 0..MaxParts }

resolve ==
  /\ resolveResult = [k |-> "not called"]
  /\ resolveResult' = getValueAtPath(resolveData, resolveParts)
  /\ UNCHANGED <<resolveData, resolveParts>>
  /\ UNCHANGED <<diffVars, editorVars, pathVars, navVars, statsVars, searchVars, textVars, chatVars, aiVars, storeVars, urlVars>>

InitResolve ==
  /\ resolveData \in ResolveValues
  /\ resolveParts \in PartSeqs
  /\ resolveResult = [k |-> "not called"]
  /\ IdleDiff /\ IdleEditor /\ IdlePath /\ IdleNav /\ IdleStats /\ IdleSearch /\ IdleText /\ IdleChat /\ IdleAi /\ IdleStore /\ IdleUrl

NextResolve == resolve
SpecResolve == InitResolve /\ [][NextResolve]_vars

(***************************************************************************)
(* navigateToJsonPath (main.ts 2296-2377) and what it acts on.             *)
(***************************************************************************)
\* the index of the first occurrence of sub in s at or after i, 0 if none
RECURSIVE IndexOfFrom(_, _, _)
IndexOfFrom(s, sub, i) ==
  IF i + Len(sub) - 1 > Len(s) THEN 0
  ELSE IF SubSeq(s, i, i + Len(sub) - 1) = sub THEN i
  ELSE IndexOfFrom(s, sub, i + 1)
\* s.replace(sub, ''): the first occurrence is removed
RemoveFirst(s, sub) ==
  LET i == IndexOfFrom(s, sub, 1) IN
  IF i = 0 THEN s ELSE SubSeq(s, 1, i - 1) \o SubSeq(s, i + Len(sub), Len(s))
\* s.split('.').pop(): the text after the last '.'
RECURSIVE LastSegment(_)
LastSegment(s) ==
  IF Len(s) = 0 \/ CharAt(s, Len(s)) = "." THEN ""
  ELSE LastSegment(SubSeq(s, 1, Len(s) - 1)) \o CharAt(s, Len(s))

\* cleanPath (main.ts 2300-2303)
CleanPath(pathStr) ==
  LET trimmed == Trim(pathStr) IN
  IF endsWith(trimmed, ".length") THEN RemoveFirst(trimmed, ".length") ELSE trimmed
\* fullPath (main.ts 2306-2309)
FullPath(pathStr) ==
  LET cleanPath == CleanPath(pathStr) IN
  IF startsWith(cleanPath, "$") THEN cleanPath ELSE "$." \o cleanPath
\* the key name taken from the cleaned path instead of the path string
KeyNameOfCleanPath(pathStr) ==
  IF LastSegment(CleanPath(pathStr)) # "" THEN LastSegment(CleanPath(pathStr))
  ELSE pathStr

\* keyName (main.ts 2328): pathStr.split('.').pop() || pathStr
KeyName(pathStr) ==
  IF LastSegment(pathStr) # "" THEN LastSegment(pathStr) ELSE pathStr

\* allLines (main.ts 2312): the lines that carry a data-path
allLines(lines) == { j \in 1..Len(lines) : ~lines[j].closing }
\* the line a loop over the lines breaks at: the first hit, 0 if none
FirstLine(hits) ==
  IF hits = {} THEN 0 ELSE CHOOSE j \in hits : \A h \in hits : j <= h

\* targetLine (main.ts 2313-2337): the exact match, else the partial match
TargetLine(lines, pathStr) ==
  LET fullPath == FullPath(pathStr)
      keyName == KeyName(pathStr)
      exact == FirstLine({ j \in allLines(lines) :
                 lines[j].path = fullPath \/ lines[j].path = pathStr })
      partial == FirstLine({ j \in allLines(lines) :
                   \/ lines[j].path = fullPath
                   \/ endsWith(lines[j].path, "." \o keyName) })
  IN IF exact # 0 THEN exact ELSE partial

\* the parts of the nodes a line is nested in
ProperPrefixes(parts) == { SubSeq(parts, 1, n) : n \in 0..(Len(parts) - 1) }

navigateToJsonPath(pathStr) ==
  LET targetLine == TargetLine(tree, pathStr) IN
  /\ navTick' = ~navTick
  /\ navPathStr' = pathStr
  /\ navTarget' = targetLine
  /\ IF targetLine # 0
     THEN /\ mode' = "editor"
          /\ collapsed' = collapsed \ ProperPrefixes(tree[targetLine].parts)
          /\ highlightTimers' = highlightTimers \cup {targetLine}
     ELSE UNCHANGED <<mode, collapsed, highlightTimers>>
  /\ UNCHANGED <<highlighted, removeTimers>>
  /\ UNCHANGED <<diffVars, editorVars, pathVars, resolveVars, statsVars, searchVars, textVars, chatVars, aiVars, storeVars, urlVars>>

\* the 100 ms timer (main.ts 2362-2371): a line's pending timers count as one
highlightTimerFires ==
  \E j \in highlightTimers :
    /\ highlightTimers' = highlightTimers \ {j}
    /\ highlighted' = highlighted \cup {j}
    /\ removeTimers' = removeTimers \cup {j}
    /\ UNCHANGED <<mode, collapsed, navTick, navPathStr, navTarget>>
    /\ UNCHANGED <<diffVars, editorVars, pathVars, resolveVars, statsVars, searchVars, textVars, chatVars, aiVars, storeVars, urlVars>>

\* the 2500 ms timer (main.ts 2368-2370)
removeTimerFires ==
  \E j \in removeTimers :
    /\ removeTimers' = removeTimers \ {j}
    /\ highlighted' = highlighted \ {j}
    /\ UNCHANGED <<mode, collapsed, navTick, navPathStr, navTarget, highlightTimers>>
    /\ UNCHANGED <<diffVars, editorVars, pathVars, resolveVars, statsVars, searchVars, textVars, chatVars, aiVars, storeVars, urlVars>>

\* the click listener of a node's toggle (main.ts 479-488)
toggleClick ==
  \E j \in 1..Len(tree) :
    /\ ~tree[j].closing
    /\ tree[j].type \in {"object", "array"}
    /\ collapsed' = IF tree[j].parts \in collapsed
                    THEN collapsed \ {tree[j].parts}
                    ELSE collapsed \cup {tree[j].parts}
    /\ UNCHANGED <<mode, navTick, navPathStr, navTarget,
                   highlightTimers, highlighted, removeTimers>>
    /\ UNCHANGED <<diffVars, editorVars, pathVars, resolveVars, statsVars, searchVars, textVars, chatVars, aiVars, storeVars, urlVars>>

\* setEditorMode (main.ts 2381-2386)
setEditorMode ==
  /\ mode' = "editor"
  /\ UNCHANGED <<collapsed, navTick, navPathStr, navTarget,
                 highlightTimers, highlighted, removeTimers>>
  /\ UNCHANGED <<diffVars, editorVars, pathVars, resolveVars, statsVars, searchVars, textVars, chatVars, aiVars, storeVars, urlVars>>
\* setDiffMode (main.ts 2388-2393)
setDiffMode ==
  /\ mode' = "diff"
  /\ UNCHANGED <<collapsed, navTick, navPathStr, navTarget,
                 highlightTimers, highlighted, removeTimers>>
  /\ UNCHANGED <<diffVars, editorVars, pathVars, resolveVars, statsVars, searchVars, textVars, chatVars, aiVars, storeVars, urlVars>>

NavScalars == {Num(0)}
NavKeys == {"a", "b"}
NavValues == ValuesUpTo(MaxNodes, NavScalars, NavKeys)
\* the path strings navigateToJsonPath is called with
NavStrings == {"$", "$.a", "a", " $.a ", "$[0]", "$.b.a", "$.x", "$.a.length",
               "$.x.a.length"}

InitNav ==
  /\ \E v \in NavValues :
       /\ jsonInput = Parsed(v)
       /\ tree = renderTree(v)
  /\ activeView = "tree"
  /\ columnSelectedPath = <<>>
  /\ columns = <<>>
  /\ IdleNav /\ IdlePath /\ IdleDiff /\ IdleResolve /\ IdleStats /\ IdleSearch /\ IdleText /\ IdleChat /\ IdleAi /\ IdleStore /\ IdleUrl

NextNav ==
  \/ \E pathStr \in NavStrings : navigateToJsonPath(pathStr)
  \/ highlightTimerFires
  \/ removeTimerFires
  \/ toggleClick
  \/ setEditorMode
  \/ setDiffMode
SpecNav == InitNav /\ [][NextNav]_vars

(***************************************************************************)
(* countStats (main.ts 408-431).                                           *)
(***************************************************************************)
\* a leaves-only walk: the values of a container are not visited
ObjectValuesNone(v) == <<>>

\* Object.values(v) of an object, and the elements forEach visits of an array
ObjectValues(v) == [i \in 1..Len(OwnFields(v)) |-> OwnFields(v)[i][2]]

ZeroStats ==
  [objects |-> 0, arrays |-> 0, strings |-> 0, numbers |-> 0, booleans |-> 0, nulls |-> 0]
\* stats.<counter>++
Increment(s, counter) == [s EXCEPT ![counter] = @ + 1]
\* the counter the switch of count increments for a type, "" for none
CounterOf(type) ==
  CASE type = "object" -> "objects"
    [] type = "array" -> "arrays"
    [] type = "string" -> "strings"
    [] type = "number" -> "numbers"
    [] type = "boolean" -> "booleans"
    [] type = "null" -> "nulls"
    [] OTHER -> ""

\* count(v), as the stats after it from the stats before it
RECURSIVE count(_, _), countEach(_, _)
countEach(s, values) ==
  IF Len(values) = 0 THEN s
  ELSE countEach(count(s, Head(values)), Tail(values))
count(s, v) ==
  LET type == getType(v) IN
  IF type \in {"object", "array"}
  THEN countEach(Increment(s, CounterOf(type)), ObjectValues(v))
  ELSE IF CounterOf(type) # "" THEN Increment(s, CounterOf(type))
  ELSE s

countStats(value) == count(ZeroStats, value)

StatsScalars == {Null, Bool(TRUE), Num(0), NaN, Str("a")}
StatsKeys == {"a", "b"}
\* {"a":[1,2,"x"],"b":null}
StatsExample ==
  Obj(<< <<"a", Arr(<<Num(1), Num(2), Str("x")>>)>>, <<"b", Null>> >>)
StatsValues == ValuesUpTo(MaxNodes, StatsScalars, StatsKeys) \cup {StatsExample}

callCountStats ==
  /\ stats.k = "not called"
  /\ stats' = [k |-> "stats", value |-> countStats(statsValue)]
  /\ UNCHANGED statsValue
  /\ UNCHANGED <<diffVars, editorVars, pathVars, resolveVars, navVars, searchVars, textVars, chatVars, aiVars, storeVars, urlVars>>

InitStats ==
  /\ statsValue \in StatsValues
  /\ stats = [k |-> "not called"]
  /\ IdleDiff /\ IdleEditor /\ IdlePath /\ IdleResolve /\ IdleNav /\ IdleSearch /\ IdleText /\ IdleChat /\ IdleAi /\ IdleStore /\ IdleUrl
NextStats == callCountStats
SpecStats == InitStats /\ [][NextStats]_vars

(***************************************************************************)
(* Search: performSearch (main.ts 1293-1340), highlightCurrentMatch        *)
(* (1342-1350), nextMatch, prevMatch (1352-1364), clearSearch (1366-1374). *)
(***************************************************************************)
UpperCase == "ABCDEFGHIJKLMNOPQRSTUVWXYZ"
LowerCase == "abcdefghijklmnopqrstuvwxyz"
\* toLowerCase that leaves every character as it is
RECURSIVE toLowerCaseIdentity(_)
toLowerCaseIdentity(s) ==
  IF Len(s) = 0 THEN "" ELSE CharAt(s, 1) \o toLowerCaseIdentity(SubSeq(s, 2, Len(s)))

\* the lower-case letter of each upper-case ASCII letter
LowerOf ==
  [c \in { CharAt(UpperCase, i) : i \in 1..Len(UpperCase) } |->
     CharAt(LowerCase, IndexOfFrom(UpperCase, c, 1))]
\* s.toLowerCase(), of the ASCII letters
RECURSIVE toLowerCase(_)
toLowerCase(s) ==
  IF Len(s) = 0 THEN ""
  ELSE LET c == CharAt(s, 1)
       IN (IF c \in DOMAIN LowerOf THEN LowerOf[c] ELSE c)
          \o toLowerCase(SubSeq(s, 2, Len(s)))
\* s.includes(sub)
includes(s, sub) == sub = "" \/ IndexOfFrom(s, sub, 1) # 0

\* the blank test that only the empty query passes
IsBlankOnlyIfEmpty(query) == query = ""

\* !query.trim() (main.ts 1301)
IsBlank(query) == Trim(query) = ""

\* the cursor one before i, stopping at the first match
PrevIndexClamped(i, n) == IF i = 0 THEN 0 ELSE i - 1

\* the cursor one after i, not wrapped
NextIndexNoWrap(i, n) == i + 1
\* (currentMatchIndex + 1) % searchMatches.length
NextIndex(i, n) == (i + 1) % n
\* (currentMatchIndex - 1 + searchMatches.length) % searchMatches.length
PrevIndex(i, n) == (i - 1 + n) % n

\* the test of a line (main.ts 1310-1316): closing lines have no key or value
LineMatches(line, lowerQuery) ==
  LET keyText == toLowerCase(line.keySearchable.text)
      valueText == toLowerCase(line.valueSearchable.text)
  IN includes(keyText, lowerQuery) \/ includes(valueText, lowerQuery)

\* the lines of seq-of-lines `lines` that match, in document order
RECURSIVE MatchingLines(_, _, _)
MatchingLines(lines, lowerQuery, j) ==
  IF j > Len(lines) THEN <<>>
  ELSE (IF LineMatches(lines[j], lowerQuery) THEN <<j>> ELSE <<>>)
       \o MatchingLines(lines, lowerQuery, j + 1)

\* the .children elements a line is nested in: a closing line lies in its
\* own node's, any other line in those of the nodes above its own
ChildrenAbove(line) ==
  IF line.closing THEN ProperPrefixes(line.parts) \cup {line.parts}
  ELSE ProperPrefixes(line.parts)

\* highlightCurrentMatch: search-current on the match at the cursor alone
CurrentClassAfter(matches, index, before) ==
  (before \ { matches[i] : i \in 1..Len(matches) })
  \cup { matches[i] : i \in { k \in 1..Len(matches) : k - 1 = index } }

CounterText(index, n) == ToString(index + 1) \o "/" \o ToString(n)

\* the rest of performSearch once the lines have been tested
performSearchWith(query, matches) ==
  LET cleared == { searchMatches[i] : i \in 1..Len(searchMatches) } IN
  /\ searchOp' = "performSearch"
  /\ searchQuery' = query
  /\ searchMatches' = matches
  /\ searchMatchClass' =
       (searchMatchClass \ cleared) \cup { matches[i] : i \in 1..Len(matches) }
  /\ collapsed' =
       collapsed \ UNION { ChildrenAbove(tree[matches[i]]) : i \in 1..Len(matches) }
  /\ IF Len(matches) > 0
     THEN /\ currentMatchIndex' = 0
          /\ searchCurrentClass' =
               CurrentClassAfter(matches, 0, searchCurrentClass \ cleared)
          /\ searchResultsText' = "1/" \o ToString(Len(matches))
     ELSE /\ currentMatchIndex' = -1
          /\ searchCurrentClass' = searchCurrentClass \ cleared
          /\ searchResultsText' = "No results"
  /\ UNCHANGED <<mode, navTick, navPathStr, navTarget,
                 highlightTimers, highlighted, removeTimers>>
  /\ UNCHANGED <<diffVars, editorVars, pathVars, resolveVars, statsVars, textVars, chatVars, aiVars, storeVars, urlVars>>

performSearch(query) ==
  IF IsBlank(query)
  THEN \* the early return of main.ts 1301-1304
       LET cleared == { searchMatches[i] : i \in 1..Len(searchMatches) } IN
       /\ searchOp' = "performSearch"
       /\ searchQuery' = query
       /\ searchMatches' = <<>>
       /\ currentMatchIndex' = -1
       /\ searchMatchClass' = searchMatchClass \ cleared
       /\ searchCurrentClass' = searchCurrentClass \ cleared
       /\ searchResultsText' = ""
       /\ UNCHANGED <<diffVars, editorVars, pathVars, resolveVars, navVars, statsVars, textVars, chatVars, aiVars, storeVars, urlVars>>
  ELSE \E lowerQuery \in {toLowerCase(query)} :
         \E matches \in {MatchingLines(tree, lowerQuery, 1)} :
           performSearchWith(query, matches)

\* the cursor set to index, then highlightCurrentMatch and the counter
moveMatch(index) ==
  /\ currentMatchIndex' = index
  /\ searchCurrentClass' = CurrentClassAfter(searchMatches, index, searchCurrentClass)
  /\ searchResultsText' = CounterText(index, Len(searchMatches))

nextMatch ==
  /\ searchOp' = "nextMatch"
  /\ IF Len(searchMatches) = 0
     THEN UNCHANGED <<currentMatchIndex, searchCurrentClass, searchResultsText>>
     ELSE moveMatch(NextIndex(currentMatchIndex, Len(searchMatches)))
  /\ UNCHANGED <<searchQuery, searchMatches, searchMatchClass>>
  /\ UNCHANGED <<diffVars, editorVars, pathVars, resolveVars, navVars, statsVars, textVars, chatVars, aiVars, storeVars, urlVars>>

prevMatch ==
  /\ searchOp' = "prevMatch"
  /\ IF Len(searchMatches) = 0
     THEN UNCHANGED <<currentMatchIndex, searchCurrentClass, searchResultsText>>
     ELSE moveMatch(PrevIndex(currentMatchIndex, Len(searchMatches)))
  /\ UNCHANGED <<searchQuery, searchMatches, searchMatchClass>>
  /\ UNCHANGED <<diffVars, editorVars, pathVars, resolveVars, navVars, statsVars, textVars, chatVars, aiVars, storeVars, urlVars>>

clearSearch ==
  LET cleared == { searchMatches[i] : i \in 1..Len(searchMatches) } IN
  /\ searchOp' = "clearSearch"
  /\ searchQuery' = ""
  /\ searchMatches' = <<>>
  /\ currentMatchIndex' = -1
  /\ searchMatchClass' = searchMatchClass \ cleared
  /\ searchCurrentClass' = searchCurrentClass \ cleared
  /\ searchResultsText' = ""
  /\ UNCHANGED <<diffVars, editorVars, pathVars, resolveVars, navVars, statsVars, textVars, chatVars, aiVars, storeVars, urlVars>>

SearchScalars == {Null, Bool(TRUE), Num(0), Str("A b")}
SearchKeys == {"a", "Ab"}
\* documents with three matches of one query
SearchExamples ==
  { Arr(<<Str("a"), Str("a"), Str("a")>>),
    Obj(<< <<"a", Arr(<<Str("ba"), Null>>)>>, <<"Ab", Num(0)>> >>) }
SearchValues == ValuesUpTo(MaxNodes, SearchScalars, SearchKeys) \cup SearchExamples
SearchQueries == {"", " ", "a", "A", " b", "0", "true", "null"}

InitSearch ==
  /\ \E v \in SearchValues :
       /\ jsonInput = Parsed(v)
       /\ tree = renderTree(v)
  /\ activeView = "tree"
  /\ columnSelectedPath = <<>>
  /\ columns = <<>>
  /\ IdleNav /\ IdlePath /\ IdleDiff /\ IdleResolve /\ IdleStats /\ IdleSearch /\ IdleText /\ IdleChat /\ IdleAi /\ IdleStore /\ IdleUrl

NextSearch ==
  \/ \E query \in SearchQueries : performSearch(query)
  \/ nextMatch
  \/ prevMatch
  \/ clearSearch
  \/ toggleClick
SpecSearch == InitSearch /\ [][NextSearch]_vars

(***************************************************************************)
(* Texts.  JSON.stringify and JSON.parse, and js-yaml's dump and load as   *)
(* main.ts calls them (176, 2447, 2450, 2461, 2464), on documents of at    *)
(* most MaxNodes nodes.  A text is a string; the parsers are decided on    *)
(* the texts of those documents: a text is JSON when, outside its string   *)
(* literals and but for white space, it is what JSON.stringify writes for  *)
(* a document; it is YAML when it is a JSON scalar or what dump writes for *)
(* a document in block or in flow style.                                   *)
(***************************************************************************)
RECURSIVE Join(_, _)
Join(strings, separator) ==
  IF Len(strings) = 0 THEN ""
  ELSE IF Len(strings) = 1 THEN strings[1]
  ELSE strings[1] \o separator \o Join(Tail(strings), separator)
Quote(s) == "\"" \o s \o "\""

\* JSON.stringify(value): NaN is written as null
RECURSIVE JSONstringify(_)
JSONstringify(v) ==
  CASE v.k = "null" -> "null"
    [] v.k = "boolean" -> String(v)
    [] v.k = "number" -> IF v.nan THEN "null" ELSE String(v)
    [] v.k = "string" -> Quote(v.s)
    [] v.k = "array" ->
         "[" \o Join([i \in 1..Len(v.items) |-> JSONstringify(v.items[i])], ",") \o "]"
    [] v.k = "object" ->
         "{" \o Join([i \in 1..Len(v.fields) |->
                        Quote(v.fields[i][1]) \o ":" \o JSONstringify(v.fields[i][2])], ",")
             \o "}"

\* JSON.stringify(value, null, 2), at the indentation `indent`
RECURSIVE JSONstringifyIndented(_, _)
JSONstringifyIndented(v, indent) ==
  LET inner == indent \o "  " IN
  IF IsScalar(v) \/ IsEmptyContainer(v) THEN JSONstringify(v)
  ELSE IF v.k = "array"
  THEN "[\n"
       \o Join([i \in 1..Len(v.items) |->
                  inner \o JSONstringifyIndented(v.items[i], inner)], ",\n")
       \o "\n" \o indent \o "]"
  ELSE "{\n"
       \o Join([i \in 1..Len(v.fields) |->
                  inner \o Quote(v.fields[i][1]) \o ": "
                        \o JSONstringifyIndented(v.fields[i][2], inner)], ",\n")
       \o "\n" \o indent \o "}"

\* the plain scalars YAML reads as something else than a string, and the
\* characters a plain scalar cannot begin with
YamlIndicators == {"{", "}", "[", "]", "-", "?", ":", ",", "#", "&", "*", "!",
                   "|", ">", "'", "\"", "%", "@", " "}
YamlNeedsQuotes(s) ==
  \/ s \in {"", "null", "Null", "NULL", "~", "true", "True", "TRUE",
            "false", "False", "FALSE", ".nan", ".NaN", ".NAN", ".inf"}
  \/ AllDigits(s)
  \/ CharAt(s, 1) \in YamlIndicators
  \/ includes(s, ": ") \/ includes(s, " #") \/ includes(s, "\n")
  \/ CharAt(s, Len(s)) \in {" ", ":"}
\* a string as dump writes it, as a value and as a key
YamlString(s) == IF YamlNeedsQuotes(s) THEN "'" \o s \o "'" ELSE s
YamlScalar(v) ==
  CASE v.k = "null" -> "null"
    [] v.k = "boolean" -> String(v)
    [] v.k = "number" -> IF v.nan THEN ".nan" ELSE String(v)
    [] v.k = "string" -> YamlString(v.s)

\* yaml.dump(value, { flowLevel: 0 }) without its final line break
RECURSIVE YamlFlow(_)
YamlFlow(v) ==
  IF IsScalar(v) THEN YamlScalar(v)
  ELSE IF v.k = "array"
  THEN "[" \o Join([i \in 1..Len(v.items) |-> YamlFlow(v.items[i])], ", ") \o "]"
  ELSE "{" \o Join([i \in 1..Len(v.fields) |->
                      YamlString(v.fields[i][1]) \o ": " \o YamlFlow(v.fields[i][2])], ", ")
           \o "}"

\* yaml.dump(value, { indent: 2 }) of a container that is not empty, without
\* its final line break: the first line as it is, the others after `indent`
RECURSIVE YamlBlock(_, _)
YamlBlock(v, indent) ==
  LET inner == indent \o "  "
      Inline(child) == IsScalar(child) \/ IsEmptyContainer(child)
  IN
  IF v.k = "array"
  THEN Join([i \in 1..Len(v.items) |->
               "- " \o (IF Inline(v.items[i]) THEN YamlFlow(v.items[i])
                        ELSE YamlBlock(v.items[i], inner))], "\n" \o indent)
  ELSE Join([i \in 1..Len(v.fields) |->
               YamlString(v.fields[i][1]) \o ":"
               \o (IF Inline(v.fields[i][2]) THEN " " \o YamlFlow(v.fields[i][2])
                   ELSE "\n" \o inner \o YamlBlock(v.fields[i][2], inner))], "\n" \o indent)

\* yaml.dump(data, { indent: 2, lineWidth: -1, noRefs: true }) (main.ts 2447)
yamlDumpBlock(v) ==
  (IF IsScalar(v) \/ IsEmptyContainer(v) THEN YamlFlow(v) ELSE YamlBlock(v, "")) \o "\n"
\* yaml.dump(data, { flowLevel: 0, lineWidth: -1 }) (main.ts 2461)
yamlDumpFlow(v) == YamlFlow(v) \o "\n"

TextScalars == {Null, Num(0), NaN, Str("a")}
TextKeys == {"a", "b"}
TextValues == ValuesUpTo(MaxNodes, TextScalars, TextKeys)

(***************************************************************************)
(* The order of the properties of a parsed object (main.ts 162, 1392):     *)
(* Object.keys lists the array indices first, ascending, then the other    *)
(* keys in the order the text declares them. SpecOrder types JSON texts    *)
(* with every order of declaration into the panes of the diff.             *)
(***************************************************************************)
RECURSIVE InsertIndexField(_, _)
InsertIndexField(sorted, field) ==
  IF Len(sorted) = 0 THEN <<field>>
  ELSE IF StrToNat(field[1]) < StrToNat(sorted[1][1]) THEN <<field>> \o sorted
  ELSE <<sorted[1]>> \o InsertIndexField(Tail(sorted), field)
RECURSIVE SortIndexFields(_)
SortIndexFields(fields) ==
  IF Len(fields) = 0 THEN <<>>
  ELSE InsertIndexField(SortIndexFields(Tail(fields)), Head(fields))
IsIndexField(field) == IsIndexKey(field[1])
IsNameField(field) == ~IsIndexKey(field[1])
\* the document JSON.parse builds from fields declared in the order of v
RECURSIVE OwnPropertyOrder(_)
OwnPropertyOrder(v) ==
  IF v.k = "array"
  THEN Arr([i \in 1..Len(v.items) |-> OwnPropertyOrder(v.items[i])])
  ELSE IF v.k = "object"
  THEN LET fields == [i \in 1..Len(v.fields) |->
                        <<v.fields[i][1], OwnPropertyOrder(v.fields[i][2])>>]
       IN Obj(SortIndexFields(SelectSeq(fields, IsIndexField))
                \o SelectSeq(fields, IsNameField))
  ELSE v

RECURSIVE Products(_)
Products(sets) ==
  IF Len(sets) = 0 THEN {<<>>}
  ELSE { <<x>> \o rest : x \in Head(sets), rest \in Products(Tail(sets)) }
\* the orders in which a text can declare the fields of the document v
RECURSIVE Declarations(_)
Declarations(v) ==
  IF v.k = "array"
  THEN { Arr(items) :
           items \in Products([i \in 1..Len(v.items) |-> Declarations(v.items[i])]) }
  ELSE IF v.k = "object"
  THEN LET n == Len(v.fields) IN
       UNION { { Obj([i \in 1..n |-> <<v.fields[p[i]][1], items[i]>>]) :
                   items \in Products([i \in 1..n |-> Declarations(v.fields[p[i]][2])]) }
               : p \in { q \in [1..n -> 1..n] : \A i, j \in 1..n : q[i] = q[j] => i = j } }
  ELSE {v}

OrderScalars == {Num(0)}
OrderKeys == {"a", "0"}
\* objects whose fields hold more than one node
OrderExamples ==
  { Obj(<< <<"a", Num(0)>>, <<"0", Num(0)>> >>),
    Obj(<< <<"a", Arr(<<Num(0), Num(0)>>)>>, <<"0", Num(0)>> >>),
    Obj(<< <<"a", Arr(<<>>)>>, <<"0", Arr(<<>>)>> >>),
    Arr(<< Obj(<< <<"a", Num(0)>>, <<"0", Num(0)>> >>), Num(0) >>),
    Arr(<< Obj(<<>>), Obj(<<>>) >>) }
DeclaredValues ==
  UNION { Declarations(v) :
            v \in ValuesUpTo(OrderMaxNodes, OrderScalars, OrderKeys) \cup OrderExamples }
\* the JSON texts of SpecOrder, each with the document JSON.parse gives
OrderDocuments == { <<JSONstringify(d), OwnPropertyOrder(d)>> : d \in DeclaredValues }
OrderTexts == { d[1] : d \in OrderDocuments }

\* the JSON texts without white space, each with the document it denotes
JsonDocuments ==
  { <<JSONstringify(v), v>> : v \in { w \in TextValues : ~HasNaNInside(w) } }
  \cup OrderDocuments
\* the YAML texts without the white space around them
YamlDocuments ==
  { <<Trim(yamlDumpBlock(v)), v>> : v \in TextValues }
  \cup { <<Trim(yamlDumpFlow(v)), v>> : v \in TextValues }
  \cup { <<JSONstringify(v), v>> : v \in { w \in TextValues : IsScalar(w) /\ ~HasNaNInside(w) } }

\* the text without the white space outside its string literals
RECURSIVE StripWhitespace(_, _)
StripWhitespace(text, inString) ==
  IF Len(text) = 0 THEN ""
  ELSE LET c == CharAt(text, 1)
           rest == SubSeq(text, 2, Len(text))
       IN IF c = "\"" THEN c \o StripWhitespace(rest, ~inString)
          ELSE IF ~inString /\ c \in Whitespace THEN StripWhitespace(rest, inString)
          ELSE c \o StripWhitespace(rest, inString)

\* the texts of the documents, and the document of each text
JsonTexts == { d[1] : d \in JsonDocuments }
JsonDocumentOf == [ t \in JsonTexts |-> (CHOOSE d \in JsonDocuments : d[1] = t)[2] ]
YamlTexts == { d[1] : d \in YamlDocuments }
YamlDocumentOf == [ t \in YamlTexts |-> (CHOOSE d \in YamlDocuments : d[1] = t)[2] ]

\* JSON.parse(text): the document, or the SyntaxError it throws
JSONparse(text) ==
  IF text \in JsonTexts THEN Parsed(JsonDocumentOf[text])
  ELSE LET stripped == StripWhitespace(text, FALSE) IN
       IF stripped \in JsonTexts THEN Parsed(JsonDocumentOf[stripped]) ELSE SyntaxError
\* yaml.load(text): the document, or the YAMLException it throws
yamlLoad(text) ==
  LET trimmed == Trim(text) IN
  IF trimmed \in YamlTexts THEN Parsed(YamlDocumentOf[trimmed]) ELSE YAMLException

(***************************************************************************)
(* The main editor: detectFormat (main.ts 140-148), parseData (150-184),   *)
(* handleInput (2403-2441), formatJson and minifyJson (2443-2470),         *)
(* shareViaUrl (1524-1546), and the input listeners of the diff panes      *)
(* (2642-2653) on their texts.                                             *)
(***************************************************************************)
\* parseData that knows of JSON alone
parseDataJsonOnly(text) ==
  IF Trim(text) = "" THEN BlankText ELSE JSONparse(text)

\* the ParseResult of parseData(text), but for its format
parseData(text) ==
  IF Trim(text) = "" THEN BlankText
  ELSE IF detectFormat(text) = "json" THEN JSONparse(text)
  ELSE yamlLoad(text)
\* the format of that ParseResult: 'json' for a blank text
ResultFormat(text) == IF Trim(text) = "" THEN "json" ELSE detectFormat(text)

\* what handleInput leaves of the views for a ParseResult
TreeShown(result) == IF result.valid THEN renderTree(result.data) ELSE <<>>

\* handleInput, for the text the editor holds when it is called; the lines
\* of the tree are new elements, none collapsed and none marked
handleInputBeforeSave(text) ==
  \E result \in {parseData(text)} :
    /\ jsonInput' = result
    /\ currentFormat' = FormatAfter(currentFormat, text)
    /\ formatBadge' = ResultFormat(text)
    /\ tree' = TreeShown(result)
    /\ collapsed' = {}
    /\ IF result.valid
       THEN /\ statsValue' = result.data
            /\ stats' = [k |-> "stats", value |-> countStats(result.data)]
            /\ searchQuery' = ""
            /\ searchMatches' = <<>>
            /\ currentMatchIndex' = -1
            /\ searchResultsText' = ""
            /\ searchOp' = "clearSearch"
            /\ IF activeView = "column"
               THEN \E selected \in {IF getValueAtPath(result.data, columnSelectedPath) = Undefined
                                     THEN <<>> ELSE columnSelectedPath} :
                      /\ columnSelectedPath' = selected
                      /\ columns' = renderColumnView(result.data, selected)
               ELSE UNCHANGED <<columnSelectedPath, columns>>
       ELSE /\ columns' = <<>>
            /\ columnSelectedPath' = IF result = BlankText THEN <<>> ELSE columnSelectedPath
            /\ UNCHANGED <<statsVars, searchQuery, searchMatches, currentMatchIndex,
                           searchResultsText, searchOp>>
    /\ searchMatchClass' = {}
    /\ searchCurrentClass' = {}
    /\ UNCHANGED activeView
    /\ UNCHANGED <<mode, navTick, navPathStr, navTarget,
                   highlightTimers, highlighted, removeTimers>>

\* saveToStorage, for the text the editor holds
saveToStorage(text) == Item(text)
\* handleInput: for a blank text it returns before saveToStorage
handleInput(text) ==
  /\ handleInputBeforeSave(text)
  /\ storedText' = IF Trim(text) = "" THEN storedText ELSE saveToStorage(text)

\* the input listener of the main editor (main.ts 2638)
editorInput(text) ==
  /\ editorText' = text
  /\ handleInput(text)
  /\ UNCHANGED <<diffTextLeft, diffTextRight, shareUrl>>
  /\ UNCHANGED <<diffVars, pathVars, resolveVars, chatVars, aiVars, urlVars>>

\* jsonInput.value = text; handleInput()
setEditorValue(text) ==
  /\ editorText' = text
  /\ handleInput(text)
  /\ UNCHANGED <<diffTextLeft, diffTextRight, shareUrl>>
  /\ UNCHANGED <<diffVars, pathVars, resolveVars, chatVars, aiVars, urlVars>>
\* what formatJson and minifyJson do to a text that does not parse: the
\* parse alone
parseOnly ==
  /\ currentFormat' = FormatAfter(currentFormat, editorText)
  /\ UNCHANGED <<editorText, formatBadge, diffTextLeft, diffTextRight, shareUrl>>
  /\ UNCHANGED <<diffVars, editorVars, pathVars, resolveVars, navVars, statsVars, searchVars, chatVars, aiVars, storeVars, urlVars>>

JsonPretty(data) == JSONstringifyIndented(data, "")
formatJson ==
  IF parseData(editorText).valid
  THEN \E text \in {IF detectFormat(editorText) = "yaml"
                    THEN yamlDumpBlock(parseData(editorText).data)
                    ELSE JsonPretty(parseData(editorText).data)} :
         setEditorValue(text)
  ELSE parseOnly
minifyJson ==
  IF parseData(editorText).valid
  THEN \E text \in {IF detectFormat(editorText) = "yaml"
                    THEN yamlDumpFlow(parseData(editorText).data)
                    ELSE JSONstringify(parseData(editorText).data)} :
         setEditorValue(text)
  ELSE parseOnly

\* renderDiff on the texts of the panes: it parses the left text, then the
\* right text
renderDiffTexts(left, right) ==
  /\ \E leftResult \in {parseData(left)} : \E rightResult \in {parseData(right)} :
       /\ diffInputLeft' = leftResult
       /\ diffInputRight' = rightResult
       /\ renderDiffOf(leftResult, rightResult)
  /\ currentFormat' = FormatAfter(FormatAfter(currentFormat, left), right)
  /\ UNCHANGED <<editorText, formatBadge, shareUrl>>
  /\ UNCHANGED <<editorVars, pathVars, resolveVars, navVars, statsVars, searchVars, chatVars, aiVars, storeVars, urlVars>>
\* the input listeners of the diff panes
diffInputLeftInput(text) ==
  /\ diffTextLeft' = text
  /\ UNCHANGED diffTextRight
  /\ renderDiffTexts(text, diffTextRight)
diffInputRightInput(text) ==
  /\ diffTextRight' = text
  /\ UNCHANGED diffTextLeft
  /\ renderDiffTexts(diffTextLeft, text)

\* shareViaUrl: the data and the format parameter of the URL it copies
shareViaUrl ==
  /\ Trim(editorText) # ""
  /\ shareUrl' = [k |-> "url", data |-> Trim(editorText), format |-> currentFormat]
  /\ UNCHANGED <<editorText, currentFormat, formatBadge, diffTextLeft, diffTextRight>>
  /\ UNCHANGED <<diffVars, editorVars, pathVars, resolveVars, navVars, statsVars, searchVars, chatVars, aiVars, storeVars, urlVars>>

\* texts that are neither JSON nor YAML
MalformedTexts == {"{", "[0", "a: [", "'a"}
\* the texts the editor starts with: every document in each style
DocumentTexts ==
  UNION { {JSONstringify(v), JsonPretty(v), yamlDumpBlock(v), yamlDumpFlow(v)}
          : v \in TextValues }
EditorTexts == DocumentTexts \cup MalformedTexts \cup {"", " "}
\* the texts typed into a pane once the page is loaded
TypedTexts == {"", " [0]", "a: 0"}
PaneTexts == {"", "a: 0"}

\* the page loaded with one of texts in the editor (main.ts 2726-2752)
InitEditorTexts(texts) ==
  /\ editorText \in texts
  /\ jsonInput = parseData(editorText)
  /\ tree = TreeShown(jsonInput)
  /\ activeView = "tree"
  /\ columnSelectedPath = <<>>
  /\ columns = <<>>
  /\ currentFormat = FormatAfter("json", editorText)
  /\ formatBadge = ResultFormat(editorText)
  /\ diffTextLeft = ""
  /\ diffTextRight = ""
  /\ shareUrl = [k |-> "none"]
  /\ IF jsonInput.valid
     THEN /\ statsValue = jsonInput.data
          /\ stats = [k |-> "stats", value |-> countStats(jsonInput.data)]
     ELSE IdleStats
  /\ storedText = IF Trim(editorText) = "" THEN NoItem ELSE saveToStorage(editorText)
  /\ IdleDiff /\ IdlePath /\ IdleResolve /\ IdleNav /\ IdleSearch /\ IdleChat /\ IdleAi /\ IdleUrl
InitText == InitEditorTexts(EditorTexts)

NextText ==
  \/ \E text \in TypedTexts : editorInput(text)
  \/ formatJson
  \/ minifyJson
  \/ \E text \in PaneTexts : diffInputLeftInput(text)
  \/ \E text \in PaneTexts : diffInputRightInput(text)
  \/ shareViaUrl
SpecText == InitText /\ [][NextText]_vars

\* edits of the main editor between the handlers of the search box
EditTexts == {"", "{", "[\"a\",\"a\"]", "{\"a\":0}", "a: 0"}
EditQueries == {"", "a", "0"}
InitEdit == InitEditorTexts(EditTexts)
NextEdit ==
  \/ \E text \in EditTexts : editorInput(text)
  \/ \E query \in EditQueries : performSearch(query)
  \/ nextMatch
  \/ prevMatch
  \/ clearSearch
SpecEdit == InitEdit /\ [][NextEdit]_vars

\* edits of the main editor between the handlers of the column view
ColumnTexts == {"", "{", "[0]", "{\"a\":[0]}", "{\"b\":0}"}
InitColumn == InitEditorTexts(ColumnTexts)
NextColumn ==
  \/ \E text \in ColumnTexts : editorInput(text)
  \/ handleColumnItemClick
  \/ setTreeViewMode
  \/ setColumnViewMode
SpecColumn == InitColumn /\ [][NextColumn]_vars

InitOrder ==
  /\ IdleDiff /\ IdleEditor /\ IdlePath /\ IdleResolve /\ IdleNav /\ IdleStats /\ IdleSearch /\ IdleText /\ IdleChat /\ IdleAi /\ IdleStore /\ IdleUrl

NextOrder ==
  \/ \E text \in OrderTexts : diffInputLeftInput(text)
  \/ \E text \in OrderTexts : diffInputRightInput(text)
SpecOrder == InitOrder /\ [][NextOrder]_vars

(***************************************************************************)
(* AIChatbox (lib/ai-chatbox.ts): toggle, open and close (75-96) of a      *)
(* mounted chatbox, the callback open hands to requestAnimationFrame (83)  *)
(* and the callback close hands to setTimeout (92-95).                     *)
(***************************************************************************)
chatOpen ==
  /\ frameCallbacks < MaxPending
  /\ isOpen' = TRUE
  /\ panelClasses' = panelClasses \ {"aicb-hidden"}
  /\ frameCallbacks' = frameCallbacks + 1
  /\ fabClasses' = fabClasses \cup {"aicb-hidden"}
  /\ UNCHANGED closeTimers

chatClose ==
  /\ closeTimers < MaxPending
  /\ isOpen' = FALSE
  /\ panelClasses' = panelClasses \ {"aicb-visible"}
  /\ closeTimers' = closeTimers + 1
  /\ UNCHANGED <<fabClasses, frameCallbacks>>

open ==
  /\ chatOpen
  /\ UNCHANGED <<diffVars, editorVars, pathVars, resolveVars, navVars, statsVars, searchVars, textVars, aiVars, storeVars, urlVars>>
close ==
  /\ chatClose
  /\ UNCHANGED <<diffVars, editorVars, pathVars, resolveVars, navVars, statsVars, searchVars, textVars, aiVars, storeVars, urlVars>>
toggle ==
  /\ IF isOpen THEN chatClose ELSE chatOpen
  /\ UNCHANGED <<diffVars, editorVars, pathVars, resolveVars, navVars, statsVars, searchVars, textVars, aiVars, storeVars, urlVars>>

\* the callback of requestAnimationFrame (83)
frameCallbackRuns ==
  /\ frameCallbacks > 0
  /\ frameCallbacks' = frameCallbacks - 1
  /\ panelClasses' = panelClasses \cup {"aicb-visible"}
  /\ UNCHANGED <<isOpen, fabClasses, closeTimers>>
  /\ UNCHANGED <<diffVars, editorVars, pathVars, resolveVars, navVars, statsVars, searchVars, textVars, aiVars, storeVars, urlVars>>

\* the callback of setTimeout (92-95)
closeTimerFires ==
  /\ closeTimers > 0
  /\ closeTimers' = closeTimers - 1
  /\ panelClasses' = panelClasses \cup {"aicb-hidden"}
  /\ fabClasses' = fabClasses \ {"aicb-hidden"}
  /\ UNCHANGED <<isOpen, frameCallbacks>>
  /\ UNCHANGED <<diffVars, editorVars, pathVars, resolveVars, navVars, statsVars, searchVars, textVars, aiVars, storeVars, urlVars>>

InitChat ==
  /\ IdleDiff /\ IdleEditor /\ IdlePath /\ IdleResolve /\ IdleNav /\ IdleStats /\ IdleSearch /\ IdleText /\ IdleChat /\ IdleAi /\ IdleStore /\ IdleUrl

NextChat ==
  \/ open
  \/ close
  \/ toggle
  \/ frameCallbackRuns
  \/ closeTimerFires
SpecChat == InitChat /\ [][NextChat]_vars

(***************************************************************************)
(* The AI assistant of the main application: sendAIMessage (main.ts        *)
(* 1975-2091) as the steps between its awaits, with initAISession          *)
(* (1698-1745), checkPromptFits (1924-1955), buildStructurePrompt          *)
(* (1958-1973), removeLoadingMessage (1885-1890) and the listeners of the  *)
(* send button and of the question box (2713-2719).  The panel is open and *)
(* the editor is not edited while a request runs.                          *)
(***************************************************************************)
\* the methods a session answers by: typeof session.promptStreaming and
\* typeof session.prompt decide (main.ts 2054, 2071, 2078)
SessionMethods == {"promptStreaming", "prompt", "none"}
\* the questions typed into aiInput
AIQuestions == {" ", "q"}

\* removeLoadingMessage on a chat of n loading messages: the first one found
\* is removed
removeLoadingMessage(n) == IF n > 0 THEN n - 1 ELSE 0

\* checkPromptFits(session, promptText).fits; measured is FALSE when the
\* measurement throws, the quota of the session is MaxTokens
checkPromptFits(measured, promptTokens, inputUsage) ==
  IF measured THEN promptTokens <= MaxTokens - inputUsage ELSE TRUE

\* buildStructurePrompt(jsonData, question, format): '' for a text that
\* does not parse
buildStructurePrompt(jsonData, format) ==
  IF (IF format = "yaml" THEN yamlLoad(jsonData) ELSE JSONparse(jsonData)).valid
  THEN "structure"
  ELSE ""

FreeRequests == {r \in 1..MaxRequests : aiRequests[r].pc \in {"idle", "done"}}
InFlight == (1..MaxRequests) \ FreeRequests
Completed == [pc |-> "done", prompt |-> "full", chunks |-> 0]

\* sendAIMessage up to its first await
sendAIMessage ==
  IF Trim(aiInputValue) = "" \/ Trim(editorText) = ""
  THEN UNCHANGED vars
  ELSE /\ FreeRequests # {}
       /\ loadingMessages < MaxPending
       /\ aiInputValue' = ""
       /\ aiSendDisabled' = TRUE
       /\ loadingMessages' = loadingMessages + 1
       /\ \E r \in FreeRequests :
            /\ \A q \in FreeRequests : r <= q
            /\ aiRequests' = [aiRequests EXCEPT ![r] =
                 [pc |-> IF aiSession = "null" THEN "initAISession" ELSE "checkPromptFits",
                  prompt |-> "full", chunks |-> 0]]
       /\ UNCHANGED <<aiSession, sessionsCreated, modelCalls>>
       /\ UNCHANGED <<diffVars, editorVars, pathVars, resolveVars, navVars, statsVars, searchVars, textVars, chatVars, storeVars, urlVars>>

\* the click listener of aiSend: a disabled button fires no click
aiSendClick ==
  /\ ~aiSendDisabled
  /\ sendAIMessage

\* the keydown listener of aiInput
aiInputKeydown(key, shiftKey) ==
  IF key = "Enter" /\ ~shiftKey
  THEN sendAIMessage
  ELSE UNCHANGED vars

\* the user types a question
aiInputTyped(text) ==
  /\ aiInputValue' = text
  /\ UNCHANGED <<aiSession, sessionsCreated, aiSendDisabled, loadingMessages, aiRequests, modelCalls>>
  /\ UNCHANGED <<diffVars, editorVars, pathVars, resolveVars, navVars, statsVars, searchVars, textVars, chatVars, storeVars, urlVars>>

\* the catch and finally blocks of sendAIMessage
catchAndFinally(r) ==
  /\ loadingMessages' = removeLoadingMessage(loadingMessages)
  /\ aiSendDisabled' = FALSE
  /\ aiRequests' = [aiRequests EXCEPT ![r] = Completed]

\* from "Create message element for streaming" to the await of the answer,
\* for the prompt and what checkPromptFits said of it
callModel(r, prompt, fits) ==
  IF aiSession = "none"
  THEN /\ catchAndFinally(r)
       /\ UNCHANGED modelCalls
  ELSE /\ modelCalls' = modelCalls \cup {[prompt |-> prompt, fits |-> fits]}
       /\ aiRequests' = [aiRequests EXCEPT ![r] = [pc |-> aiSession, prompt |-> prompt, chunks |-> 0]]
       /\ UNCHANGED <<loadingMessages, aiSendDisabled>>

\* the await of checkPromptFits(aiSession, promptText) and what follows it
awaitCheckPromptFits(r) ==
  /\ aiRequests' = [aiRequests EXCEPT ![r] = [pc |-> "checkPromptFits", prompt |-> "full", chunks |-> 0]]
  /\ UNCHANGED <<loadingMessages, aiSendDisabled, modelCalls>>

\* languageModel.create settles for the request r that awaits initAISession
initAISessionSettles(r, created, method) ==
  /\ aiRequests[r].pc = "initAISession"
  /\ IF created
     THEN /\ aiSession' = method
          /\ sessionsCreated' = sessionsCreated + 1
          /\ awaitCheckPromptFits(r)
     ELSE /\ catchAndFinally(r)
          /\ UNCHANGED <<aiSession, sessionsCreated, modelCalls>>
  /\ UNCHANGED aiInputValue
  /\ UNCHANGED <<diffVars, editorVars, pathVars, resolveVars, navVars, statsVars, searchVars, textVars, chatVars, storeVars, urlVars>>

\* checkPromptFits of the full prompt settles with fits
checkPromptFitsSettles(r, fits) ==
  /\ aiRequests[r].pc = "checkPromptFits"
  /\ IF fits
     THEN callModel(r, "full", TRUE)
     ELSE IF buildStructurePrompt(Trim(editorText), currentFormat) # ""
          THEN /\ aiRequests' = [aiRequests EXCEPT ![r] = [pc |-> "checkStructure", prompt |-> "structure", chunks |-> 0]]
               /\ UNCHANGED <<loadingMessages, aiSendDisabled, modelCalls>>
          ELSE callModel(r, "full", FALSE)
  /\ UNCHANGED <<aiSession, sessionsCreated, aiInputValue>>
  /\ UNCHANGED <<diffVars, editorVars, pathVars, resolveVars, navVars, statsVars, searchVars, textVars, chatVars, storeVars, urlVars>>

\* checkPromptFits of the structure prompt settles with fits
checkStructureSettles(r, fits) ==
  /\ aiRequests[r].pc = "checkStructure"
  /\ IF fits
     THEN callModel(r, "structure", TRUE)
     ELSE /\ catchAndFinally(r)
          /\ UNCHANGED modelCalls
  /\ UNCHANGED <<aiSession, sessionsCreated, aiInputValue>>
  /\ UNCHANGED <<diffVars, editorVars, pathVars, resolveVars, navVars, statsVars, searchVars, textVars, chatVars, storeVars, urlVars>>

\* the stream of promptStreaming yields a chunk
streamChunk(r) ==
  /\ aiRequests[r].pc = "promptStreaming"
  /\ aiRequests[r].chunks < MaxChunks
  /\ loadingMessages' = IF aiRequests[r].chunks = 0
                        THEN removeLoadingMessage(loadingMessages)
                        ELSE loadingMessages
  /\ aiRequests' = [aiRequests EXCEPT ![r].chunks = @ + 1]
  /\ UNCHANGED <<aiSession, sessionsCreated, aiSendDisabled, aiInputValue, modelCalls>>
  /\ UNCHANGED <<diffVars, editorVars, pathVars, resolveVars, navVars, statsVars, searchVars, textVars, chatVars, storeVars, urlVars>>

\* the stream ends: the for await loop is left and the finally block runs
streamEnds(r) ==
  /\ aiRequests[r].pc = "promptStreaming"
  /\ aiSendDisabled' = FALSE
  /\ aiRequests' = [aiRequests EXCEPT ![r] = Completed]
  /\ UNCHANGED <<aiSession, sessionsCreated, aiInputValue, loadingMessages, modelCalls>>
  /\ UNCHANGED <<diffVars, editorVars, pathVars, resolveVars, navVars, statsVars, searchVars, textVars, chatVars, storeVars, urlVars>>

\* the stream throws
streamThrows(r) ==
  /\ aiRequests[r].pc = "promptStreaming"
  /\ catchAndFinally(r)
  /\ UNCHANGED <<aiSession, sessionsCreated, aiInputValue, modelCalls>>
  /\ UNCHANGED <<diffVars, editorVars, pathVars, resolveVars, navVars, statsVars, searchVars, textVars, chatVars, storeVars, urlVars>>

\* session.prompt settles: resolved, the loading message is removed and the
\* answer shown; rejected, the catch block does the same to the loading
\* message
promptSettles(r, resolved) ==
  /\ aiRequests[r].pc = "prompt"
  /\ loadingMessages' = removeLoadingMessage(loadingMessages)
  /\ aiSendDisabled' = FALSE
  /\ aiRequests' = [aiRequests EXCEPT ![r] = Completed]
  /\ UNCHANGED <<aiSession, sessionsCreated, aiInputValue, modelCalls>>
  /\ UNCHANGED <<diffVars, editorVars, pathVars, resolveVars, navVars, statsVars, searchVars, textVars, chatVars, storeVars, urlVars>>

\* the editor texts the assistant is asked about
AITexts == {"", "{", "{\"a\":0}", "a: 0"}
InitAI == InitEditorTexts(AITexts)
NextAI ==
  \/ \E text \in AIQuestions : aiInputTyped(text)
  \/ aiSendClick
  \/ \E key \in {"Enter", "a"}, shiftKey \in BOOLEAN : aiInputKeydown(key, shiftKey)
  \/ \E r \in 1..MaxRequests, created \in BOOLEAN, method \in SessionMethods :
       initAISessionSettles(r, created, method)
  \/ \E r \in 1..MaxRequests, measured \in BOOLEAN, promptTokens \in 0..MaxTokens, inputUsage \in 0..MaxTokens :
       checkPromptFitsSettles(r, checkPromptFits(measured, promptTokens, inputUsage))
  \/ \E r \in 1..MaxRequests, measured \in BOOLEAN, promptTokens \in 0..MaxTokens, inputUsage \in 0..MaxTokens :
       checkStructureSettles(r, checkPromptFits(measured, promptTokens, inputUsage))
  \/ \E r \in 1..MaxRequests : streamChunk(r)
  \/ \E r \in 1..MaxRequests : streamEnds(r)
  \/ \E r \in 1..MaxRequests : streamThrows(r)
  \/ \E r \in 1..MaxRequests, resolved \in BOOLEAN : promptSettles(r, resolved)
SpecAI == InitAI /\ [][NextAI]_vars

(***************************************************************************)
(* Persistence of the main editor: saveToStorage and loadFromStorage       *)
(* (main.ts 1632-1643) and clearInput (2472-2476), between the edits of    *)
(* the editor.                                                             *)
(***************************************************************************)
\* clearInput: handleInput returns before saveToStorage for the empty text,
\* then the item is removed
clearInput ==
  /\ editorText' = ""
  /\ handleInputBeforeSave("")
  /\ storedText' = NoItem
  /\ UNCHANGED <<diffTextLeft, diffTextRight, shareUrl>>
  /\ UNCHANGED <<diffVars, pathVars, resolveVars, chatVars, aiVars, urlVars>>

\* the text loadFromStorage puts into the editor at the next load, "" when
\* it returns false and restores nothing
loadFromStorage(stored) ==
  IF stored # NoItem /\ stored.value # "" THEN stored.value ELSE ""

StoreTexts == {"", " ", "{", "[0]", "{\"a\":0}", "a: 0"}
InitStore == InitEditorTexts(StoreTexts)
NextStore ==
  \/ \E text \in StoreTexts : editorInput(text)
  \/ formatJson
  \/ minifyJson
  \/ clearInput
  \/ setTreeViewMode
  \/ setColumnViewMode
SpecStore == InitStore /\ [][NextStore]_vars

(***************************************************************************)
(* The URL import: fetchFromUrl (main.ts 1572-1602) as the steps between   *)
(* its awaits, openUrlModal and closeUrlModal (1604-1613) and the          *)
(* listeners of the modal (2683-2687).                                     *)
(***************************************************************************)
\* what fetch(url) settles with: a rejection, or a response with its ok flag
\* and the text its body reads as
NetworkError == [k |-> "error"]
Response(ok, text) == [k |-> "response", ok |-> ok, text |-> text]
ResponseTexts == {"", "{", "[0]", "a: 0"}
Responses ==
  {NetworkError, Response(FALSE, "")} \cup { Response(TRUE, text) : text \in ResponseTexts }
UrlInputs == {" ", "u"}

\* `if (!result.valid) throw`, read the other way round
ImportAcceptedAlways(result) == TRUE
ImportAccepted(result) == result.valid

\* JSON.stringify(result.data, null, 2) as the textarea takes it
ImportedText(result) ==
  IF result.data = Undefined THEN "undefined" ELSE JsonPretty(result.data)

FreeFetches == {r \in 1..MaxRequests : urlFetches[r].pc \in {"idle", "failed", "imported"}}

\* fetchFromUrl up to the await of fetch(url)
fetchFromUrl ==
  IF Trim(urlInputValue) = ""
  THEN UNCHANGED vars
  ELSE /\ FreeFetches # {}
       /\ urlErrorHidden' = TRUE
       /\ urlFetchBtnDisabled' = TRUE
       /\ \E r \in FreeFetches :
            /\ \A q \in FreeFetches : r <= q
            /\ urlFetches' = [urlFetches EXCEPT ![r] = [pc |-> "fetch", response |-> NoResponse]]
       /\ UNCHANGED <<urlInputValue, urlModalHidden>>
       /\ UNCHANGED <<diffVars, editorVars, pathVars, resolveVars, navVars, statsVars, searchVars, textVars, chatVars, aiVars, storeVars>>

\* the click listener of urlFetchBtn: a disabled button fires no click
urlFetchBtnClick ==
  /\ ~urlModalHidden
  /\ ~urlFetchBtnDisabled
  /\ fetchFromUrl

\* the keydown listener of urlInput
urlInputKeydown(key) ==
  /\ ~urlModalHidden
  /\ IF key = "Enter" THEN fetchFromUrl ELSE UNCHANGED vars

\* the user types an address
urlInputTyped(text) ==
  /\ ~urlModalHidden
  /\ urlInputValue' = text
  /\ UNCHANGED <<urlModalHidden, urlErrorHidden, urlFetchBtnDisabled, urlFetches>>
  /\ UNCHANGED <<diffVars, editorVars, pathVars, resolveVars, navVars, statsVars, searchVars, textVars, chatVars, aiVars, storeVars>>

openUrlModal ==
  /\ urlModalHidden' = FALSE
  /\ UNCHANGED <<urlInputValue, urlErrorHidden, urlFetchBtnDisabled, urlFetches>>
  /\ UNCHANGED <<diffVars, editorVars, pathVars, resolveVars, navVars, statsVars, searchVars, textVars, chatVars, aiVars, storeVars>>

closeUrlModal ==
  /\ urlModalHidden' = TRUE
  /\ urlInputValue' = ""
  /\ urlErrorHidden' = TRUE
  /\ UNCHANGED <<urlFetchBtnDisabled, urlFetches>>
  /\ UNCHANGED <<diffVars, editorVars, pathVars, resolveVars, navVars, statsVars, searchVars, textVars, chatVars, aiVars, storeVars>>

\* the catch and finally blocks of fetchFromUrl, for the request r that got
\* response
fetchFailed(r, response) ==
  /\ urlErrorHidden' = FALSE
  /\ urlFetchBtnDisabled' = FALSE
  /\ urlFetches' = [urlFetches EXCEPT ![r] = [pc |-> "failed", response |-> response]]
  /\ UNCHANGED <<urlInputValue, urlModalHidden>>
  /\ UNCHANGED <<diffVars, editorVars, pathVars, resolveVars, navVars, statsVars, searchVars, chatVars, aiVars, storeVars>>

\* fetch(url) settles for the request r
fetchSettles(r, response) ==
  /\ urlFetches[r].pc = "fetch"
  /\ IF response = NetworkError \/ ~response.ok
     THEN /\ fetchFailed(r, response)
          /\ UNCHANGED textVars
     ELSE /\ urlFetches' = [urlFetches EXCEPT ![r] = [pc |-> "text", response |-> response]]
          /\ UNCHANGED <<urlInputValue, urlModalHidden, urlErrorHidden, urlFetchBtnDisabled>>
          /\ UNCHANGED <<diffVars, editorVars, pathVars, resolveVars, navVars, statsVars, searchVars, textVars, chatVars, aiVars, storeVars>>

\* response.text() settles for the request r: read is FALSE when it rejects;
\* parseJson writes currentFormat whatever the result
textSettles(r, read) ==
  /\ urlFetches[r].pc = "text"
  /\ IF ~read
     THEN /\ fetchFailed(r, NetworkError)
          /\ UNCHANGED textVars
     ELSE \E result \in {parseData(urlFetches[r].response.text)} :
            IF ImportAccepted(result)
            THEN /\ editorText' = ImportedText(result)
                 /\ handleInput(ImportedText(result))
                 /\ UNCHANGED <<diffTextLeft, diffTextRight, shareUrl>>
                 /\ UNCHANGED <<diffVars, pathVars, resolveVars, chatVars, aiVars>>
                 /\ urlModalHidden' = TRUE
                 /\ urlInputValue' = ""
                 /\ urlErrorHidden' = TRUE
                 /\ urlFetchBtnDisabled' = FALSE
                 /\ urlFetches' = [urlFetches EXCEPT ![r] = [pc |-> "imported", response |-> @.response]]
            ELSE /\ fetchFailed(r, urlFetches[r].response)
                 /\ currentFormat' = FormatAfter(currentFormat, urlFetches[r].response.text)
                 /\ UNCHANGED <<editorText, formatBadge, diffTextLeft, diffTextRight, shareUrl>>

UrlTexts == {"", "{\"a\":0}"}
InitUrl == InitEditorTexts(UrlTexts)
NextUrl ==
  \/ openUrlModal
  \/ closeUrlModal
  \/ \E text \in UrlInputs : urlInputTyped(text)
  \/ urlFetchBtnClick
  \/ \E key \in {"Enter", "a"} : urlInputKeydown(key)
  \/ \E r \in 1..MaxRequests, response \in Responses : fetchSettles(r, response)
  \/ \E r \in 1..MaxRequests, read \in BOOLEAN : textSettles(r, read)
SpecUrl == InitUrl /\ [][NextUrl]_vars

(***************************************************************************)
(* The claims about the differ, checked under SpecDiff.                    *)
(***************************************************************************)
\* the kind of a value: null, boolean, number, string, array or object
Kind(v) == v.k
Range(seq) == { seq[j] : j \in 1..Len(seq) }
Occurrences(e, seq) == Cardinality({ j \in 1..Len(seq) : seq[j] = e })
\* the same entries, each as many times, in any order
SameEntries(s, t) ==
  /\ Len(s) = Len(t)
  /\ \A e \in Range(s) \cup Range(t) : Occurrences(e, s) = Occurrences(e, t)
Rendered == diffShown # "initial"
BothValid == diffInputLeft.valid /\ diffInputRight.valid
Compared == Rendered /\ BothValid
HasNaN(entries) ==
  \E j \in 1..Len(entries) :
    /\ entries[j].type = "changed"
    /\ entries[j].oldValue = NaN
    /\ entries[j].newValue = NaN

\* C1: diff identity: comparing a value with itself yields no entries and
\* the counts are all zero (the panes are reported identical).
C1_DiffIdentity ==
  (Compared /\ diffInputLeft.data = diffInputRight.data)
    => /\ diffEntries = <<>>
       /\ diffShown = "identical"
       /\ Count(diffEntries, "added") = 0
       /\ Count(diffEntries, "removed") = 0
       /\ Count(diffEntries, "changed") = 0

\* C1, as far as the code goes: a value compared with itself yields only
\* entries that report NaN changed to NaN.
C1_IdentityUpToNaN ==
  (Compared /\ diffInputLeft.data = diffInputRight.data)
    => \A j \in 1..Len(diffEntries) : HasNaN(<<diffEntries[j]>>)

\* C2: when the kinds of the two values differ, the result is exactly one
\* 'changed' entry at the current path carrying both whole values, so no
\* entry lies below that path; at the root path and at any other path.
C2_TypeChangeStopsDescent ==
  (Compared /\ Kind(diffInputLeft.data) # Kind(diffInputRight.data))
    => /\ diffEntries =
            << [type |-> "changed", path |-> "$",
                oldValue |-> diffInputLeft.data, newValue |-> diffInputRight.data] >>
       /\ \A p \in {"$.a", "$[0]", "$.a[1].b"} :
            compareJson(diffInputLeft.data, diffInputRight.data, p) =
              << [type |-> "changed", path |-> p,
                  oldValue |-> diffInputLeft.data, newValue |-> diffInputRight.data] >>

\* C2's case: an object with a field against a non-empty array
C2_Witness ==
  /\ Compared
  /\ Kind(diffInputLeft.data) = "object" /\ Len(diffInputLeft.data.fields) > 0
  /\ Kind(diffInputRight.data) = "array" /\ Len(diffInputRight.data.items) > 0
  /\ Len(diffEntries) = 1

\* what C3 says one key of the union contributes: by the keys the objects hold
C3_ForKey(o1, o2, key) ==
  IF ~HasOwn(o1, key)
  THEN << [type |-> "added", path |-> "$." \o key, newValue |-> Get(o2, key)] >>
  ELSE IF ~HasOwn(o2, key)
  THEN << [type |-> "removed", path |-> "$." \o key, oldValue |-> Get(o1, key)] >>
  ELSE compareJson(Get(o1, key), Get(o2, key), "$." \o key)

\* C3: when both values are objects, a key only in the old object yields one
\* 'removed' entry with only oldValue, a key only in the new object one
\* 'added' entry with only newValue, a key in both the entries of the
\* recursive comparison of the two field values, all at parent + '.key'.
C3_ObjectByKey ==
  (Compared /\ Kind(diffInputLeft.data) = "object" /\ Kind(diffInputRight.data) = "object")
    => LET o1 == diffInputLeft.data
           o2 == diffInputRight.data
           keys == AllKeys(o1, o2)
       IN SameEntries(diffEntries,
                      Flatten([j \in 1..Len(keys) |-> C3_ForKey(o1, o2, keys[j])]))

\* C3, as far as the code goes: the claim holds of the keys that
\* Object.prototype does not define.
C3_ObjectByKeyNotInherited ==
  (/\ Compared /\ Kind(diffInputLeft.data) = "object" /\ Kind(diffInputRight.data) = "object"
   /\ \A key \in Range(AllKeys(diffInputLeft.data, diffInputRight.data)) : key \notin ProtoKeys)
    => LET o1 == diffInputLeft.data
           o2 == diffInputRight.data
           keys == AllKeys(o1, o2)
       IN SameEntries(diffEntries,
                      Flatten([j \in 1..Len(keys) |-> C3_ForKey(o1, o2, keys[j])]))

\* what C4 says index i (zero-based) contributes
C4_ForIndex(a1, a2, i) ==
  LET p == "$[" \o ToString(i) \o "]" IN
  IF i >= Len(a1.items)
  THEN << [type |-> "added", path |-> p, newValue |-> a2.items[i + 1]] >>
  ELSE IF i >= Len(a2.items)
  THEN << [type |-> "removed", path |-> p, oldValue |-> a1.items[i + 1]] >>
  ELSE compareJson(a1.items[i + 1], a2.items[i + 1], p)

C4_Old == Arr(<<Num(1), Num(2), Num(3)>>)
C4_New == Arr(<<Num(0), Num(1), Num(2), Num(3)>>)

\* C4: arrays are compared by position: index i below the longer length is
\* 'added' beyond the old array, 'removed' beyond the new one, and otherwise
\* the recursive comparison at path + '[i]', by increasing i; comparing
\* [1,2,3] with [0,1,2,3] gives $[0] 1->0, $[1] 2->1, $[2] 3->2 changed and
\* $[3] added 3, in that order.
C4_PositionalArrays ==
  /\ (Compared /\ Kind(diffInputLeft.data) = "array" /\ Kind(diffInputRight.data) = "array")
       => LET a1 == diffInputLeft.data
              a2 == diffInputRight.data
              n == IF Len(a1.items) >= Len(a2.items) THEN Len(a1.items) ELSE Len(a2.items)
          IN diffEntries = Flatten([j \in 1..n |-> C4_ForIndex(a1, a2, j - 1)])
  /\ (Compared /\ diffInputLeft = Parsed(C4_Old) /\ diffInputRight = Parsed(C4_New))
       => /\ diffEntries =
               << [type |-> "changed", path |-> "$[0]", oldValue |-> Num(1), newValue |-> Num(0)],
                  [type |-> "changed", path |-> "$[1]", oldValue |-> Num(2), newValue |-> Num(1)],
                  [type |-> "changed", path |-> "$[2]", oldValue |-> Num(3), newValue |-> Num(2)],
                  [type |-> "added", path |-> "$[3]", newValue |-> Num(3)] >>
          /\ diffStats = "+1 -0 ~3"

\* C4's case: [1,2,3] against [0,1,2,3], rendered
C4_Witness ==
  /\ Compared
  /\ diffInputLeft = Parsed(C4_Old) /\ diffInputRight = Parsed(C4_New)
  /\ Len(diffEntries) = 4

\* an object is a permutation of another: the same keys with the same values
SameFields(o1, o2) ==
  /\ Len(o1.fields) = Len(o2.fields)
  /\ Range(o1.fields) = Range(o2.fields)
\* the orders of the fields of o that an object can have
KeyOrders(o) ==
  { Obj(fs) : fs \in { f \in [1..Len(o.fields) -> Range(o.fields)] :
                         /\ Range(f) = Range(o.fields)
                         /\ KeysInObjectKeysOrder([j \in 1..Len(f) |-> f[j][1]]) } }

\* C5: the order of an object's keys is not significant: an object against
\* a permutation of itself yields no entries, and permuting the keys of
\* either argument leaves the set of entries as it is.
C5_KeyOrderNotSignificant ==
  (Compared /\ Kind(diffInputLeft.data) = "object" /\ Kind(diffInputRight.data) = "object")
    => /\ SameFields(diffInputLeft.data, diffInputRight.data) => diffEntries = <<>>
       /\ \A o1 \in KeyOrders(diffInputLeft.data), o2 \in KeyOrders(diffInputRight.data) :
            Range(compareJson(o1, o2, "$")) = Range(diffEntries)

\* C5, as far as the code goes: permuting the keys of either argument leaves
\* the set of entries as it is, and an object against a permutation of
\* itself yields only entries that report NaN changed to NaN.
C5_KeyOrderUpToNaN ==
  (Compared /\ Kind(diffInputLeft.data) = "object" /\ Kind(diffInputRight.data) = "object")
    => /\ SameFields(diffInputLeft.data, diffInputRight.data)
            => \A j \in 1..Len(diffEntries) : HasNaN(<<diffEntries[j]>>)
       /\ \A o1 \in KeyOrders(diffInputLeft.data), o2 \in KeyOrders(diffInputRight.data) :
            Range(compareJson(o1, o2, "$")) = Range(diffEntries)

\* an entry seen from the other side
Swapped(e) ==
  IF e.type = "added"
  THEN [type |-> "removed", path |-> e.path, oldValue |-> e.newValue]
  ELSE IF e.type = "removed"
  THEN [type |-> "added", path |-> e.path, newValue |-> e.oldValue]
  ELSE [type |-> "changed", path |-> e.path,
        oldValue |-> e.newValue, newValue |-> e.oldValue]

\* C6: antisymmetry: the entries of compareJson(v2, v1) are those of
\* compareJson(v1, v2) with the same paths, 'added' and 'removed' swapped
\* and the two values of a 'changed' entry swapped (each as many times;
\* the order of the entries is that of the other walk).
C6_Antisymmetry ==
  Compared
    => SameEntries(compareJson(diffInputRight.data, diffInputLeft.data, "$"),
                   [j \in 1..Len(diffEntries) |-> Swapped(diffEntries[j])])

\* C6's case: a comparison that reports an added and a changed entry at once
C6_Witness ==
  /\ Compared
  /\ Count(diffEntries, "added") > 0
  /\ Count(diffEntries, "changed") > 0
  /\ Len(diffEntries) >= 2
(***************************************************************************)
(* The claims about path addressing, checked under SpecTree.               *)
(***************************************************************************)
DataLines == { j \in 1..Len(tree) : ~tree[j].closing }
\* the keys of all the objects of a value
RECURSIVE KeysOf(_)
KeysOf(v) ==
  IF v.k = "object"
  THEN Range(ObjectKeys(v)) \cup UNION { KeysOf(v.fields[j][2]) : j \in 1..Len(v.fields) }
  ELSE IF v.k = "array" THEN UNION { KeysOf(v.items[j]) : j \in 1..Len(v.items) }
  ELSE {}
Contains(s, c) == \E i \in 1..Len(s) : CharAt(s, i) = c

\* C7: within one tree, two nodes with different step sequences never get
\* the same path string.
C7_UnambiguousPaths ==
  \A i, j \in DataLines :
    tree[i].parts # tree[j].parts => tree[i].path # tree[j].path

\* C7, as far as the code goes: the paths of a tree are unambiguous when no
\* key of the document contains '.' or '['.
C7_UnambiguousForPlainKeys ==
  (jsonInput.valid
   /\ \A key \in KeysOf(jsonInput.data) : ~Contains(key, ".") /\ ~Contains(key, "["))
    => \A i, j \in DataLines :
         tree[i].parts # tree[j].parts => tree[i].path # tree[j].path

\* the document with the node at parts replaced by a value
RECURSIVE ReplaceAt(_, _, _)
ReplaceAt(v, parts, new) ==
  IF Len(parts) = 0 THEN new
  ELSE IF v.k = "object"
  THEN Obj([j \in 1..Len(v.fields) |->
              IF v.fields[j][1] = Head(parts)
              THEN <<v.fields[j][1], ReplaceAt(v.fields[j][2], Tail(parts), new)>>
              ELSE v.fields[j]])
  ELSE Arr([j \in 1..Len(v.items) |->
              IF ToString(j - 1) = Head(parts)
              THEN ReplaceAt(v.items[j], Tail(parts), new)
              ELSE v.items[j]])
\* the node at parts, a place of the document
RECURSIVE NodeAt(_, _)
NodeAt(v, parts) ==
  IF Len(parts) = 0 THEN v
  ELSE IF v.k = "object" THEN NodeAt(Get(v, Head(parts)), Tail(parts))
  ELSE NodeAt(v.items[StrToNat(Head(parts)) + 1], Tail(parts))
\* what the differ reports when the node at parts alone changes its kind
DifferEntriesAt(v, parts) ==
  LET old == NodeAt(v, parts)
      new == IF old.k = "null" THEN Bool(TRUE) ELSE Null
  IN compareJson(v, ReplaceAt(v, parts, new), "$")
TreePathAt(parts) ==
  tree[CHOOSE j \in DataLines : tree[j].parts = parts].path

\* C8: the path the column view shows for a clicked node is the path the
\* tree view gave the node and the path the differ reports for its place.
C8_OneAddressingScheme ==
  (pathShownBy = "column")
    => /\ currentPath = TreePathAt(columnSelectedPath)
       /\ LET diffs == DifferEntriesAt(jsonInput.data, columnSelectedPath)
          IN Len(diffs) = 1 /\ diffs[1].path = currentPath

\* C8, as far as the code goes: the tree view and the differ always agree,
\* and the column view agrees with them on the nodes not reached through an
\* object key made of digits only.
C8_OneSchemeButDigitKeys ==
  /\ \A j \in DataLines :
       LET diffs == DifferEntriesAt(jsonInput.data, tree[j].parts)
       IN Len(diffs) = 1 /\ diffs[1].path = tree[j].path
  /\ (pathShownBy = "column"
      /\ \A key \in KeysOf(jsonInput.data) : ~AllDigits(key))
       => currentPath = TreePathAt(columnSelectedPath)

(***************************************************************************)
(* The claim about resolution, checked under SpecResolve.                  *)
(***************************************************************************)
\* what C9 says resolution returns: the node reached by existing keys and
\* in-range integer indices, and not found otherwise
RECURSIVE C9_Follow(_, _)
C9_Follow(v, parts) ==
  IF Len(parts) = 0 THEN v
  ELSE IF v.k = "object" /\ HasOwn(v, Head(parts))
  THEN C9_Follow(Get(v, Head(parts)), Tail(parts))
  ELSE IF v.k = "array" /\ AllDigits(Head(parts)) /\ StrToNat(Head(parts)) < Len(v.items)
  THEN C9_Follow(v.items[StrToNat(Head(parts)) + 1], Tail(parts))
  ELSE Undefined
Resolved == resolveResult.k # "not called"

\* C9: getValueAtPath returns the node the parts lead to when every step
\* names an existing key or an in-range index, and not found (undefined) when
\* a step names a missing key, an out-of-range or non-integer index, or
\* steps into a scalar or null; ['a','b'] in {"a":5} is not found.
C9_ResolutionFailsClosed ==
  Resolved
    => /\ resolveResult = C9_Follow(resolveData, resolveParts)
       /\ (resolveData = Obj(<< <<"a", Num(5)>> >>) /\ resolveParts = <<"a", "b">>)
            => resolveResult = Undefined

\* C9, as far as the code goes: the claim holds of the parts that are a
\* string of digits or a name Object.prototype does not define.
C9_FailsClosedOnPlainParts ==
  (Resolved /\ \A j \in 1..Len(resolveParts) :
                 resolveParts[j] \notin ProtoKeys
                 /\ (AllDigits(resolveParts[j]) \/ parseInt(resolveParts[j]).nan))
    => resolveResult = C9_Follow(resolveData, resolveParts)

(***************************************************************************)
(* The claim about navigation, checked under SpecNav.                      *)
(***************************************************************************)
NavCalled == navPathStr # ""
\* the paths of the rendered tree's lines
C10_LinePaths == { tree[j].path : j \in { i \in 1..Len(tree) : ~tree[i].closing } }
\* the path strings a path string can be read as: itself, trimmed, without a
\* trailing .length, and with the root prefix the caller may have left out
C10_Readings(pathStr) ==
  LET t == Trim(pathStr)
      base == IF endsWith(t, ".length") THEN SubSeq(t, 1, Len(t) - 7) ELSE t
  IN {pathStr, t, base, "$." \o base}
\* the path string denotes no node of the rendered tree
C10_Stale(pathStr) == C10_Readings(pathStr) \cap C10_LinePaths = {}
\* no line's path ends with '.' and the text after the path string's last '.'
C10_NoKeyNameMatch(pathStr) ==
  LET last == LastSegment(pathStr)
      keyName == IF last = "" THEN pathStr ELSE last
  IN \A linePath \in C10_LinePaths : ~endsWith(linePath, "." \o keyName)
C10_NothingSelected ==
  /\ navTarget' = 0
  /\ UNCHANGED <<mode, collapsed, highlightTimers, highlighted, removeTimers>>

RECURSIVE C11_Positions(_)
C11_Positions(v) ==
  {<<>>} \cup
  (IF v.k \in {"object", "array"}
   THEN UNION { { <<OwnFields(v)[i][1]>> \o rest :
                    rest \in C11_Positions(OwnFields(v)[i][2]) }
                : i \in 1..Len(OwnFields(v)) }
   ELSE {})
C11_NodesOfKind(v, kind) ==
  Cardinality({ parts \in C11_Positions(v) : NodeAt(v, parts).k = kind })
Counted == stats.k = "stats"

\* C11: countStats counts every node of the value once, under the counter
\* of its kind, so the six counters sum to the number of nodes; for
\* {"a":[1,2,"x"],"b":null} it returns objects 1, arrays 1, strings 1,
\* numbers 2, booleans 0, nulls 1.
C11_StatsCountEveryNode ==
  Counted =>
    LET s == stats.value IN
    /\ s.objects = C11_NodesOfKind(statsValue, "object")
    /\ s.arrays = C11_NodesOfKind(statsValue, "array")
    /\ s.strings = C11_NodesOfKind(statsValue, "string")
    /\ s.numbers = C11_NodesOfKind(statsValue, "number")
    /\ s.booleans = C11_NodesOfKind(statsValue, "boolean")
    /\ s.nulls = C11_NodesOfKind(statsValue, "null")
    /\ s.objects + s.arrays + s.strings + s.numbers + s.booleans + s.nulls
         = Cardinality(C11_Positions(statsValue))
    /\ statsValue = StatsExample
         => s = [objects |-> 1, arrays |-> 1, strings |-> 1, numbers |-> 2,
                 booleans |-> 0, nulls |-> 1]
\* the statistics of the example, a value with a nested container
C11_Witness ==
  /\ Counted
  /\ statsValue = StatsExample
  /\ stats.value.numbers = 2

(***************************************************************************)
(* The claims about search, checked under SpecSearch.                      *)
(***************************************************************************)
MatchCount == Len(searchMatches)
C12_NoOp ==
  UNCHANGED <<searchQuery, searchMatches, currentMatchIndex, searchMatchClass,
              searchCurrentClass, searchResultsText, collapsed>>
\* the cursor moved to index `to`, which alone is the current match
C12_MovedTo(to) ==
  /\ currentMatchIndex \in 0..(MatchCount - 1)
  /\ currentMatchIndex' = to
  /\ searchMatches' = searchMatches
  /\ searchCurrentClass' = {searchMatches[to + 1]}

\* C12: with no match nextMatch and prevMatch change nothing; with n >= 1
\* matches and the cursor at i, nextMatch moves it to (i+1) mod n and
\* prevMatch to (i-1+n) mod n: next of the last is the first, previous of
\* the first is the last.
C12_CursorWraps ==
  [][/\ nextMatch =>
          IF MatchCount = 0 THEN C12_NoOp
          ELSE C12_MovedTo(IF currentMatchIndex = MatchCount - 1 THEN 0
                           ELSE currentMatchIndex + 1)
     /\ prevMatch =>
          IF MatchCount = 0 THEN C12_NoOp
          ELSE C12_MovedTo(IF currentMatchIndex = 0 THEN MatchCount - 1
                           ELSE currentMatchIndex - 1)]_vars
\* prevMatch has gone from the first of three matches to the last
C12_Witness ==
  /\ searchOp = "prevMatch"
  /\ MatchCount = 3
  /\ currentMatchIndex = 2
  /\ searchCurrentClass = {searchMatches[3]}

\* lower case, character by character
RECURSIVE C13_Lower(_)
C13_Lower(s) ==
  IF s = "" THEN ""
  ELSE C13_Lower(SubSeq(s, 1, Len(s) - 1))
       \o (LET c == CharAt(s, Len(s)) IN IF c \in DOMAIN LowerOf THEN LowerOf[c] ELSE c)
C13_Within(q, text) ==
  \E i \in 1..Len(text) : \E j \in i..Len(text) : C13_Lower(SubSeq(text, i, j)) = C13_Lower(q)
C13_AllSpaces(q) == \A i \in 1..Len(q) : CharAt(q, i) = " "
\* the node at parts is the field of an object
C13_IsField(parts) ==
  parts # <<>> /\ NodeAt(jsonInput.data, SubSeq(parts, 1, Len(parts) - 1)).k = "object"
\* the scalar at parts in string form; a null and a container have none
C13_ValueMatches(q, parts) ==
  LET node == NodeAt(jsonInput.data, parts) IN
  CASE node.k = "string" -> C13_Within(q, node.s)
    [] node.k = "number" -> C13_Within(q, IF node.nan THEN "NaN" ELSE ToString(node.n))
    [] node.k = "boolean" -> C13_Within(q, IF node.b THEN "true" ELSE "false")
    [] OTHER -> FALSE
C13_Searched == searchOp = "performSearch" /\ ~C13_AllSpaces(searchQuery)
\* the places of the matched lines
C13_Found == { tree[searchMatches[i]].parts : i \in 1..MatchCount }
C13_ResultIsOfNodes ==
  /\ \A i \in 1..MatchCount : ~tree[searchMatches[i]].closing
  /\ \A i, j \in 1..MatchCount : i < j => searchMatches[i] < searchMatches[j]

\* C13: performSearch with a non-blank query q finds a node if and only if
\* lowercase(q) is within the lowercase text of the node's Object key or of
\* its scalar value in string form; a null never matches through its value.
C13_MatchPredicate ==
  C13_Searched =>
    /\ C13_ResultIsOfNodes
    /\ C13_Found =
         { parts \in C11_Positions(jsonInput.data) :
             \/ C13_IsField(parts) /\ C13_Within(searchQuery, parts[Len(parts)])
             \/ C13_ValueMatches(searchQuery, parts) }

\* C13, as the code has it: the key text of an element of an array is its
\* index in decimal, and it is searched like the key of a field.
C13_MatchPredicateWithIndices ==
  C13_Searched =>
    /\ C13_ResultIsOfNodes
    /\ C13_Found =
         { parts \in C11_Positions(jsonInput.data) :
             \/ parts # <<>> /\ C13_Within(searchQuery, parts[Len(parts)])
             \/ C13_ValueMatches(searchQuery, parts) }
\* a search in another case than the text it finds, in the value of a field
C13_Witness ==
  /\ C13_Searched
  /\ searchQuery = "a"
  /\ \E parts \in C13_Found :
       /\ NodeAt(jsonInput.data, parts) = Str("A b")
       /\ C13_IsField(parts)
       /\ parts[Len(parts)] = "Ab"
  /\ \E parts \in C11_Positions(jsonInput.data) : parts \notin C13_Found

\* C14: performSearch with an empty or whitespace-only query leaves no
\* match, the cursor unset (-1), and no line marked as match or as current
\* match, whatever the search state was before.
C14_BlankQueryClears ==
  (searchOp = "performSearch" /\ C13_AllSpaces(searchQuery))
    => /\ searchMatches = <<>>
       /\ currentMatchIndex = -1
       /\ searchMatchClass = {}
       /\ searchCurrentClass = {}
\* a whitespace-only query was searched in a document that has a space
C14_Witness ==
  /\ searchOp = "performSearch"
  /\ searchQuery = " "
  /\ searchMatches = <<>>
  /\ \E j \in 1..Len(tree) : tree[j].valueSearchable.text = "A b"

\* renderDiff has run on the panes
C18_Rendered == diffShown # "initial"
C18_BothParse == diffInputLeft.valid /\ diffInputRight.valid

\* C18: whenever the left or the right diff pane is empty or fails to
\* parse, renderDiff shows the prompt in place of any outcome of compareJson,
\* no diff entries and empty diff statistics; entries and counts are shown
\* only when both panes parse.
C18_DiffSkippedOnParseFailure ==
  /\ (C18_Rendered /\ ~C18_BothParse) =>
       /\ diffShown = "prompt"
       /\ diffEntries = <<>>
       /\ diffStats = ""
  /\ (diffShown \in {"entries", "identical"} \/ diffEntries # <<>> \/ diffStats # "")
       => C18_BothParse

\* the left pane parses, the right pane fails to parse, and renderDiff ran
C18_Witness ==
  /\ C18_Rendered
  /\ diffInputLeft.valid
  /\ diffInputRight = SyntaxError
  /\ diffShown = "prompt"

(***************************************************************************)
(* The claims about the texts of the editor, checked under SpecText.       *)
(***************************************************************************)
\* the editor text parses after the step to the value it had before it
C15_SameValueAfter ==
  /\ parseData(editorText').valid
  /\ parseData(editorText').data = parseData(editorText).data

\* C15: for every document that parses (JSON or YAML), after formatJson and
\* after minifyJson, hence after one followed by the other, the editor text
\* parses to a value equal to the value parsed before the operation.
C15_SerializeRoundTrip ==
  [][((formatJson \/ minifyJson) /\ parseData(editorText).valid)
       => C15_SameValueAfter]_vars

\* the round trip is kept by formatJson, and by minifyJson but on the YAML
\* documents that are a mapping or hold a scalar JSON does not have
C15_FlowStyleIsJson(data) ==
  \/ IsScalar(data)
  \/ data.k = "array" /\ JSONparse(yamlDumpFlow(data)).valid
C15_RoundTripButYamlFlow ==
  [][(/\ parseData(editorText).valid
      /\ \/ formatJson
         \/ /\ minifyJson
            /\ \/ detectFormat(editorText) = "json"
               \/ C15_FlowStyleIsJson(parseData(editorText).data))
       => C15_SameValueAfter]_vars

\* the first character of the text that is not white space, "" if none
RECURSIVE C16_FirstCharacter(_)
C16_FirstCharacter(text) ==
  IF Len(text) = 0 THEN ""
  ELSE IF CharAt(text, 1) \in Whitespace
       THEN C16_FirstCharacter(SubSeq(text, 2, Len(text)))
       ELSE CharAt(text, 1)
C16_Texts == {editorText, diffTextLeft, diffTextRight}

\* C16: detectFormat returns json exactly when the text, after trimming
\* leading white space, begins with '{' or '[', and yaml for every other
\* text; the badge of a text that is not blank shows what it returned.
C16_FirstCharacterSniffing ==
  /\ \A text \in C16_Texts :
       /\ detectFormat(text) \in {"json", "yaml"}
       /\ detectFormat(text) = "json" <=> C16_FirstCharacter(text) \in {"{", "["}
  /\ C16_FirstCharacter(editorText) # "" =>
       (formatBadge = "json" <=> C16_FirstCharacter(editorText) \in {"{", "["})

\* an array typed after a space is JSON, a mapping in a pane is YAML
C16_Witness ==
  /\ editorText = " [0]"
  /\ formatBadge = "json"
  /\ diffTextLeft = "a: 0"

\* the editor holds a text that is not blank and starts neither an object
\* nor an array
C17_Ambiguous == C16_FirstCharacter(editorText) \notin {"", "{", "["}

C20_ShareFormatIsEditorFormat ==
  shareUrl.k = "url" => shareUrl.format = detectFormat(shareUrl.data)

\* it is, as long as no text was typed in a pane of the diff
C20_ShareFormatWithoutDiff ==
  (shareUrl.k = "url" /\ diffShown = "initial")
    => shareUrl.format = detectFormat(shareUrl.data)

(***************************************************************************)
(* The claim about the order of the entries, checked under SpecOrder.      *)
(***************************************************************************)
\* the keys of new that old does not have, in the order of new
C19_NewOnly(old, new) ==
  LET Missing(key) == ~HasOwn(old, key) IN SelectSeq(ObjectKeys(new), Missing)
\* the paths that differ between old and new in depth-first pre-order, with
\* the fields of each object in the order the object gives them
RECURSIVE C19_PreOrder(_, _, _)
C19_PreOrder(old, new, path) ==
  IF old.k # new.k THEN <<path>>
  ELSE IF old.k = "object"
  THEN LET union == ObjectKeys(old) \o C19_NewOnly(old, new)
           Below(key) ==
             IF HasOwn(old, key) /\ HasOwn(new, key)
             THEN C19_PreOrder(Get(old, key), Get(new, key), FieldPath(path, key))
             ELSE << FieldPath(path, key) >>
       IN Flatten([j \in 1..Len(union) |-> Below(union[j])])
  ELSE IF old.k = "array"
  THEN LET Below(i) ==
             IF i <= Len(old.items) /\ i <= Len(new.items)
             THEN C19_PreOrder(old.items[i], new.items[i], IndexPath(path, i - 1))
             ELSE << IndexPath(path, i - 1) >>
       IN Flatten([i \in 1..Max(Len(old.items), Len(new.items)) |-> Below(i)])
  ELSE IF old # new THEN <<path>>
  ELSE <<>>

\* the document with its fields in the order the text declares them
C19_Declared(text) == CHOOSE d \in DeclaredValues : JSONstringify(d) = text
C19_Paths == [j \in 1..Len(diffEntries) |-> diffEntries[j].path]
C19_BothParse == diffInputLeft.valid /\ diffInputRight.valid

\* C19 as stated: the entries of compareJson are in depth-first pre-order,
\* the keys of an object in union order: the keys of the old object in its
\* declaration order, then the keys only in the new object in its declaration
\* order; the elements of an array by increasing index; a child's subtree
\* before the next sibling.
C19_PreOrderOfDeclaration ==
  C19_BothParse =>
    C19_Paths = C19_PreOrder(C19_Declared(diffTextLeft), C19_Declared(diffTextRight), "$")

\* C19: the entries of compareJson are in depth-first pre-order, the keys of
\* an object in union order, where the order of an object's keys is the one
\* Object.keys gives: the keys that are array indices first, ascending, then
\* the other keys in declaration order; the elements of an array by
\* increasing index; a child's subtree before the next sibling.
C19_PreOrderOfObjectKeys ==
  C19_BothParse =>
    C19_Paths = C19_PreOrder(diffInputLeft.data, diffInputRight.data, "$")

\* the old object declares "a" before "0", and the two entries under "a"
\* come after the entry of "0"
C19_Witness ==
  /\ diffTextLeft = "{\"a\":[0,0],\"0\":0}"
  /\ diffTextRight = "{\"0\":[],\"a\":[]}"
  /\ C19_Paths = <<"$.0", "$.a[0]", "$.a[1]">>

(***************************************************************************)
(* The claim about the chatbox, checked under SpecChat.                    *)
(***************************************************************************)
C21_PanelShown == "aicb-hidden" \notin panelClasses
C21_ButtonShown == "aicb-hidden" \notin fabClasses

\* C21: for every sequence of open, close and toggle calls interleaved with
\* the firing of the pending close timers, once all timers have fired the
\* panel is shown and the floating button hidden exactly when isOpen is
\* true, and the panel is hidden and the button shown exactly when isOpen is
\* false.
C21_PanelFollowsIsOpen ==
  closeTimers = 0 =>
    /\ isOpen <=> (C21_PanelShown /\ ~C21_ButtonShown)
    /\ ~isOpen <=> (~C21_PanelShown /\ C21_ButtonShown)


(***************************************************************************)
(* The claims about the search across edits, checked under SpecEdit.       *)
(***************************************************************************)
\* C22: after any sequence of performSearch, nextMatch, prevMatch,
\* clearSearch and document edits, either the match list is empty and the
\* cursor is -1, or the match list is not empty and 0 <= cursor < number of
\* matches; immediately after a performSearch that finds matches the cursor
\* is 0.
C22_CursorInvariant ==
  /\ \/ searchMatches = <<>> /\ currentMatchIndex = -1
     \/ /\ searchMatches # <<>>
        /\ currentMatchIndex \in 0..(Len(searchMatches) - 1)
  /\ (searchOp = "performSearch" /\ searchMatches # <<>>) => currentMatchIndex = 0

\* the cursor moved back from the first match to the last of several
C22_Witness ==
  /\ Len(searchMatches) >= 2
  /\ currentMatchIndex = Len(searchMatches) - 1
  /\ searchOp = "prevMatch"

\* C23: after any sequence of document edits (valid, invalid or empty text)
\* and search operations, every element of the search match list is a line
\* of the tree currently displayed.
C23_NoStaleMatches ==
  \A j \in 1..Len(searchMatches) : searchMatches[j] \in 1..Len(tree)

\* the matches are lines of the tree after every edit to a text that parses
C23_NoStaleMatchesOfValid ==
  jsonInput.valid => \A j \in 1..Len(searchMatches) : searchMatches[j] \in 1..Len(tree)

\* C24: when handleInput renders a valid document while the search box
\* holds a non-blank query q, afterwards the search box still holds q and
\* the match list is the result of performSearch(q) on the new tree.
C24_SearchReapplied ==
  [][(\E text \in EditTexts : editorInput(text)) /\ jsonInput'.valid /\ ~IsBlank(searchQuery)
       => /\ searchQuery' = searchQuery
          /\ searchMatches' = MatchingLines(tree', toLowerCase(searchQuery), 1)]_vars

\* what it does in place of that: the search box and the match list are
\* emptied
C24_SearchCleared ==
  [][(\E text \in EditTexts : editorInput(text)) /\ jsonInput'.valid
       => searchQuery' = "" /\ searchMatches' = <<>> /\ currentMatchIndex' = -1]_vars

(***************************************************************************)
(* The claim about the column view across edits, checked under SpecColumn. *)
(***************************************************************************)
\* the parts name a node of the document: each part an own key of an object
\* or an index of an array
RECURSIVE C25_IsNode(_, _)
C25_IsNode(data, parts) ==
  IF Len(parts) = 0 THEN TRUE
  ELSE /\ data.k \in {"object", "array"}
       /\ HasOwn(data, Head(parts))
       /\ C25_IsNode(Get(data, Head(parts)), Tail(parts))

\* C25: whenever the column view is displayed, columnSelectedPath is either
\* empty or resolves to a node of the current document, for every sequence of
\* item clicks, document edits and tree/column view switches.
C25_StaleSelectionDropped ==
  (activeView = "column" /\ jsonInput.valid)
    => \/ columnSelectedPath = <<>>
       \/ C25_IsNode(jsonInput.data, columnSelectedPath)

\* an edit made while the column view is displayed drops a selection that
\* the new document does not have
C25_DroppedByEditInColumnView ==
  [][((\E text \in ColumnTexts : editorInput(text))
        /\ activeView = "column" /\ jsonInput'.valid)
       => \/ columnSelectedPath' = <<>>
          \/ C25_IsNode(jsonInput'.data, columnSelectedPath')]_vars

(***************************************************************************)
(* The claims about the AI assistant, checked under SpecAI.                *)
(***************************************************************************)
\* C26: at most one invocation of sendAIMessage is between its start and
\* its completion at any time, and at most one session is ever created,
\* whether the question is sent by the button or by the Enter key.
C26_SingleInFlight ==
  /\ Cardinality(InFlight) <= 1
  /\ sessionsCreated <= 1

\* C27: when an invocation of sendAIMessage has completed and none is
\* running, the send button is enabled and no loading message is left in
\* the chat, whatever path the invocation took.
C27_UISettled ==
  (InFlight = {} /\ \E r \in 1..MaxRequests : aiRequests[r].pc = "done")
    => (~aiSendDisabled /\ loadingMessages = 0)
\* the part of it that holds on every path: the button is enabled again
C27_ButtonEnabledAgain ==
  (InFlight = {} /\ \E r \in 1..MaxRequests : aiRequests[r].pc = "done")
    => ~aiSendDisabled

\* C28: the session is called only with a prompt of which checkPromptFits
\* said that it fits.
C28_OnlyFittingPromptsSent ==
  \A call \in modelCalls : call.fits
\* the structure prompt is sent only when it fits
C28_StructurePromptFits ==
  \A call \in modelCalls : call.prompt = "structure" => call.fits

(***************************************************************************)
(* The claim about persistence, checked under SpecStore.                   *)
(***************************************************************************)
\* C30: after every handled edit the persisted document is the text of the
\* editor, and nothing but that text is persisted when the editor is empty
\* or blank.
C30_PersistenceMirrorsEditor ==
  IF Trim(editorText) = ""
  THEN storedText \in {NoItem, Item(editorText)}
  ELSE storedText = Item(editorText)
\* its consequence: a reload restores the text the editor holds, or nothing
C30_ReloadRestoresLastText ==
  loadFromStorage(storedText) \in {editorText, ""}
\* what does hold: a text that is not blank is persisted as it is
C30_NonBlankTextIsPersisted ==
  Trim(editorText) # "" => storedText = Item(editorText)

(***************************************************************************)
(* The claim about the URL import, checked under SpecUrl.                  *)
(***************************************************************************)
\* a response fetchFromUrl cannot import: the fetch or the read failed, the
\* status is not OK, or the text does not parse
C29_Unusable(response) ==
  \/ response.k = "error"
  \/ ~response.ok
  \/ ~parseData(response.text).valid
\* the request r is settled by this step, and response is what it got
C29_Settled(r) ==
  /\ urlFetches[r].pc \in {"fetch", "text"}
  /\ urlFetches'[r].pc \in {"failed", "imported"}
\* C29: a step in which fetchFromUrl fails leaves the editor text, the tree
\* and the persisted text as they were, shows the error of the modal and
\* enables the fetch button; a step of fetchFromUrl that changes the editor
\* text puts the text of a response that parsed there.
C29_FailedImportLeavesDocument ==
  [][\A r \in 1..MaxRequests :
       C29_Settled(r) =>
         IF C29_Unusable(urlFetches'[r].response)
         THEN /\ UNCHANGED <<editorText, tree, jsonInput, storedText>>
              /\ ~urlErrorHidden'
              /\ ~urlFetchBtnDisabled'
         ELSE /\ editorText' = JsonPretty(parseData(urlFetches'[r].response.text).data)
              /\ storedText' = Item(editorText')
              /\ ~urlFetchBtnDisabled']_vars
\* a failed import of a text that does not parse, the editor holding a
\* document and the error showing
C29_Witness ==
  \E r \in 1..MaxRequests :
    /\ urlFetches[r].pc = "failed"
    /\ urlFetches[r].response.k = "response"
    /\ urlFetches[r].response.ok
    /\ ~parseData(urlFetches[r].response.text).valid
    /\ editorText # ""
    /\ ~urlErrorHidden
    /\ ~urlFetchBtnDisabled
====
